---------------------------- MODULE Spec2Model ----------------------------
(***************************************************************************)
(* ElevoSandbox server control plane: the agent connection pool            *)
(* (server/src/infra/agent_pool.rs), the agent stream endpoint             *)
(* (server/src/api/grpc/mod.rs), the process/PTY facades                   *)
(* (server/src/service/process.rs, pty.rs), the sandbox store              *)
(* (server/src/infra/sqlite.rs) and the sandbox lifecycle                  *)
(* (server/src/service/sandbox.rs).                                        *)
(*                                                                         *)
(* Every `.await` of the source is a point where other tasks may run, so   *)
(* each handler is cut into one action per stretch of code between two     *)
(* awaits that touch shared state.                                         *)
(***************************************************************************)
EXTENDS Integers, Sequences, FiniteSets, TLC

(***************************************************************************)
(* Bounds of the model.                                                    *)
(***************************************************************************)
\* number of facade calls (run, kill, create_pty, ...) issued in a behaviour
MaxCalls == 3
\* number of agent streams the endpoint accepts in a behaviour
MaxConns == 2
\* number of delete calls issued in a behaviour
MaxDeletes == 2
\* the connection-plane specifications use fewer of them
PlaneCalls == 2
PlaneConns == 1
PlaneDeletes == 1
\* number of create calls issued in a behaviour
MaxCreates == 1
\* the clock counts ticks, TicksPerSecond to the second, from 0 to MaxTime
TicksPerSecond == 2
MaxTime == 4
\* capacity of a connection's pool->forwarder queue; mpsc::channel(100) in the
\* source (grpc/mod.rs:59), scaled down so that a full queue is reachable
QueueCap == 1
\* capacity of a connection's forwarder->wire queue; mpsc::channel(100) in
\* the source (grpc/mod.rs:42), scaled down likewise
WireCap == 1
\* agent->server frames in flight on one stream
InCap == 1
\* number of WorkspaceService::delete calls issued in a behaviour
MaxWsDeletes == 2
\* Err results of connect_and_run the agent is taken through
MaxFailures == 8
\* PtyManager::new(16) in the source (connection.rs:48), scaled down so that
\* a full map is reachable
max_ptys == 2
\* capacity of the agent's outbound channel; mpsc::channel(100) in the
\* source (connection.rs:107), scaled down likewise
AgentOutCap == 1
\* width of the timeout integers: u64 and i64 in the source, scaled down to
\* TimeoutBits bits so that the values that wrap can be enumerated
TimeoutBits == 4
\* check_interval = 100 ms, in ticks of the monotonic clock
check_interval == 2
\* the largest timeout_duration, in ticks, wait_for_connection is called with
MaxWait == 2
\* the monotonic clock counts ticks from 0 to MaxInstant
MaxInstant == 4
\* the largest max_idle, in ticks, that check_stale_connections is called with
MaxIdle == 2

\* RunCommand tasks the agent runs at the same time
MaxTasks == 2
\* RECONNECT_INITIAL_DELAY and RECONNECT_MAX_DELAY, in seconds
RECONNECT_INITIAL_DELAY == 1
RECONNECT_MAX_DELAY == 60

Calls == 1..MaxCalls
Conns == 1..MaxConns
Deletes == 1..MaxDeletes
Creates == 1..MaxCreates

SandboxIds == {"S1"}
\* sandbox ids a Handshake may carry: the registry takes any string
AgentIds == SandboxIds \cup {"S2"}
\* workspace ids a caller may name; W1 exists from the start, W2 never does
WorkspaceIds == {"W1", "W2"}
WsDeletes == 1..MaxWsDeletes

\* Option<T>: Nil is Rust's None, Some(x) wraps a value; strings that may be
\* absent use the string None instead
Nil == << >>
Some(x) == <<x>>
Val(o) == o[1]
None == "None"

\* SandboxState (domain/sandbox.rs)
SandboxState == {"starting", "running", "stopping", "stopped", "error"}

\* the facade operations that send one message through the pool
Ops == {"RunCommand", "KillProcess", "CreatePty", "ResizePty", "KillPty", "PtyInput"}

\* Uuid::new_v4() for the correlation id of call c: fresh for every call
Uuid(c) == 100 + c
Cids == {Uuid(c) : c \in Calls}

\* the `result` oneof of a proto AgentCommandResponse the agent may send
Payloads ==
  { [kind |-> "Success", exit_code |-> 1, stdout |-> "hi", stderr |-> "e", message |-> ""],
    [kind |-> "Error", exit_code |-> 0, stdout |-> "", stderr |-> "", message |-> "boom"],
    [kind |-> "None", exit_code |-> 0, stdout |-> "", stderr |-> "", message |-> ""] }

VARIABLES
  rows,              \* sandboxes table: sandbox id -> row or NoRow
  containers,        \* container engine: ids of the containers that exist
  connections,       \* AgentConnPool.connections: sandbox id -> Option<connection>
  pending_requests,  \* AgentConnPool.pending_requests: correlation id -> Option<waiter>
  conns,             \* per accepted stream: the connect() task and its channels
  calls,             \* per facade call: position and locals
  dels,              \* per SandboxService::delete call: position and locals
  creates,           \* per SandboxService::create call: position and locals
  sweep,             \* SandboxService::cleanup_expired: position and locals
  workspaces,        \* workspaces table: ids of the rows that exist
  wsdel,             \* per WorkspaceService::delete call: position and locals
  agent,             \* the agent's ConnectionManager: position of run(), backoff
  ptys,              \* the agent's PtyManager.ptys: ids of the PTYs it holds
  out,               \* the agent's tx/rx channel: frames sent and not yet on the stream
  trip,              \* one SandboxRepository::create followed by a get
  instant,           \* Instant::now(), the monotonic clock, in ticks
  waiter,            \* one AgentConnPool::wait_for_connection call: position and locals
  now                \* Utc::now(), in ticks

vars == <<rows, containers, connections, pending_requests, conns, calls, dels, creates,
          sweep, workspaces, wsdel, agent, ptys, out, trip, instant, waiter, now>>
wsVars == <<workspaces, wsdel>>
storeVars == <<rows, containers, now, wsVars>>
lifeVars == <<dels, creates, sweep>>
agentVars == <<agent, ptys, out>>

(***************************************************************************)
(* Messages.                                                               *)
(***************************************************************************)
\* AgentMessageType / ServerMessage: server -> agent
ServerMsg(t, id) == [type |-> t, id |-> id, pty |-> 0]
\* AgentMessage: agent -> server
CommandResponse(cid, p) == [type |-> "CommandResponse", cid |-> cid, payload |-> p]
Heartbeat(ts) == [type |-> "Heartbeat", timestamp |-> ts]
\* ServerHandshakeAck{success, error}
HandshakeAck(success, error) ==
  [type |-> "HandshakeAck", id |-> 0, pty |-> 0, success |-> success, error |-> error]

\* convert_pool_message_to_proto keeps the variant and its fields
convert_pool_message_to_proto(m) == [type |-> m.type, id |-> m.id, pty |-> m.pty]

(***************************************************************************)
(* Initial records.                                                        *)
(***************************************************************************)
Row(st, cont, msg, tmo, at) ==
  [state |-> st, container_id |-> cont, error_message |-> msg, timeout |-> tmo,
   created_at |-> at, workspace_id |-> None]
\* the row's workspace_id column
with_workspace(row, w) == [row EXCEPT !.workspace_id = w]
NoRow == Row("absent", None, None, 0, 0)

NewConn ==
  [ phase |-> "new",      \* new | registered | open | closed : position of the connect() task
    sid |-> None,         \* sandbox id of the handshake
    msgq |-> << >>,       \* msg_tx/msg_rx: pool -> forwarder
    hand |-> Nil,         \* message the forwarder has received and not yet written
    fwd |-> FALSE,        \* the forwarder task is alive (it owns msg_rx)
    wire |-> << >>,       \* tx/rx: server -> agent frames not yet read
    wireOpen |-> TRUE,    \* the response stream rx still exists
    inbound |-> << >>,    \* agent -> server frames not yet read
    eof |-> FALSE,        \* the agent's half of the stream has ended
    got |-> {},           \* correlation ids of the requests the agent has read
    last_heartbeat |-> 0, \* AgentConnection.last_heartbeat, an instant
    heard |-> 0 ]         \* instant at which the latest Heartbeat was read

NoResult == [kind |-> "None"]
Err(e) == [kind |-> e]
Ok == [kind |-> "Ok"]

NewCall ==
  [ pc |-> "idle", op |-> None, sid |-> None,
    pty |-> 0,            \* pty_id of a PTY operation
    ref |-> Nil,          \* connection whose DashMap Ref `conn` the call holds
    via |-> Nil,          \* connection the request was enqueued on
    slot |-> Nil,         \* the oneshot channel response_tx/response_rx
    result |-> NoResult ]

NewDel == [pc |-> "idle", sid |-> None, force |-> FALSE, container_id |-> None, result |-> NoResult]

NewCreate ==
  [ pc |-> "idle", sid |-> None, waited |-> None, result |-> NoResult,
    ws |-> None,          \* params.workspace_id
    tries |-> 0,          \* calls of docker.create_container made so far
    cleanups |-> 0 ]      \* calls of docker.remove_container made so far

NewSweep == [pc |-> "idle", todo |-> {}, busy |-> Nil, deleted |-> {}]

NewWsDel == [pc |-> "idle", ws |-> None, result |-> NoResult]

\* nothing created yet
NewTrip == [pc |-> "idle", params |-> None, row |-> None, created |-> None, fetched |-> None]

\* ConnectionManager::new followed by the first lines of run()
NewAgent ==
  [ pc |-> "connecting",  \* connecting | running | backoff | exited
    connected |-> FALSE,  \* self.connected
    reconnect_delay |-> RECONNECT_INITIAL_DELAY,
    slept |-> 0,          \* the delay of the last sleep(reconnect_delay)
    streak |-> 0,         \* failed attempts since the last established connection
    failures |-> 0,       \* Err results of connect_and_run so far
    ended |-> "none",     \* how the last established stream ended
    sending |-> Nil,      \* the response the message loop is about to send
    unread |-> {},        \* PTYs whose master holds output nobody has read
    tasks |-> {},         \* the tasks spawned for RunCommand that have not finished
    reply |-> "none" ]    \* what the wait for the handshake acknowledgment last got

NewWaiter ==
  [ pc |-> "idle",        \* idle | sleep | done
    sid |-> None,         \* sandbox_id
    start |-> 0,          \* start = Instant::now()
    timeout |-> 0,        \* timeout_duration, in ticks
    wake |-> 0,           \* the instant at which sleep(check_interval) ends
    result |-> NoResult,
    seen |-> FALSE ]      \* the id was registered at an instant before the timeout elapsed

InitCommon ==
  /\ connections = [s \in AgentIds |-> Nil]
  /\ pending_requests = [u \in Cids |-> Nil]
  /\ conns = [k \in Conns |-> NewConn]
  /\ calls = [c \in Calls |-> NewCall]
  /\ dels = [d \in Deletes |-> NewDel]
  /\ creates = [t \in Creates |-> NewCreate]
  /\ sweep = NewSweep
  /\ workspaces = {"W1"}
  /\ wsdel = [x \in WsDeletes |-> NewWsDel]
  /\ agent = NewAgent
  /\ ptys = {}
  /\ out = << >>
  /\ trip = NewTrip
  /\ instant = 0
  /\ waiter = NewWaiter
  /\ now = 0

(***************************************************************************)
(* AgentConnPool (infra/agent_pool.rs).                                    *)
(***************************************************************************)
\* A DashMap Ref obtained by connections.get(sandbox_id) keeps the entry's
\* shard read-locked until it is dropped; insert and remove need the write
\* lock.  RefHeld(s): some call holds such a Ref for sandbox id s.
RefHeld(s) == \E c \in Calls : calls[c].ref # Nil /\ calls[c].sid = s

\* AgentConnPool::is_connected
is_connected(s) == connections[s] # Nil

\* register that keeps an entry that is already there (entry().or_insert)
register_keep_first(s, k) ==
  IF connections[s] # Nil THEN connections ELSE [connections EXCEPT ![s] = Some(k)]

\* AgentConnPool::register: insert replaces any entry of that id
register(s, k) == [connections EXCEPT ![s] = Some(k)]

\* AgentConnPool::unregister: removes the entry of that id, nothing else
unregister(s) == [connections EXCEPT ![s] = Nil]

\* the Sender msg_tx of connection k lives in the registry entry only
SenderAlive(k) == conns[k].sid # None /\ connections[conns[k].sid] = Some(k)

\* conn.tx.send(msg).await on connection k: "closed" when msg_rx is gone,
\* "ok" when the queue has room, otherwise the send stays pending ("full")
SendOutcome(k) ==
  IF ~conns[k].fwd THEN "closed"
  ELSE IF Len(conns[k].msgq) < QueueCap THEN "ok"
  ELSE "full"

\* the message each pool operation builds
PoolMessage(op, c) ==
  [(IF op = "PtyInput" THEN ServerMsg(op, 0) ELSE ServerMsg(op, Uuid(c)))
     EXCEPT !.pty = calls[c].pty]

\* handle_response: the AgentCommandResponse built from the proto result
ConvertResponse(cid, p) ==
  CASE p.kind = "Success" ->
         [correlation_id |-> cid, success |-> TRUE, exit_code |-> Some(p.exit_code),
          stdout |-> Some(p.stdout), stderr |-> Some(p.stderr), error_message |-> Nil]
    [] p.kind = "Error" ->
         [correlation_id |-> cid, success |-> FALSE, exit_code |-> Nil,
          stdout |-> Nil, stderr |-> Nil, error_message |-> Some(p.message)]
    [] OTHER ->
         [correlation_id |-> cid, success |-> FALSE, exit_code |-> Nil,
          stdout |-> Nil, stderr |-> Nil, error_message |-> Some("No result in response")]

\* Option::unwrap_or
unwrap_or(o, d) == IF o = Nil THEN d ELSE Val(o)

\* ProcessService::response_to_result
response_to_result(r) ==
  IF r.success
    THEN [kind |-> "CommandResult",
          exit_code |-> unwrap_or(r.exit_code, 0),
          stdout |-> unwrap_or(r.stdout, ""),
          stderr |-> unwrap_or(r.stderr, "")]
    ELSE [kind |-> "ProcessExecutionFailed",
          message |-> unwrap_or(r.error_message, "Unknown error")]

PendingInsert(pend, cid, c) == [pend EXCEPT ![cid] = Some(c)]
PendingRemove(pend, cid) == [pend EXCEPT ![cid] = Nil]

(***************************************************************************)
(* Facade calls: ProcessService::run / kill, PtyService::create / resize / *)
(* kill / send_input, each followed by the AgentConnPool operation.        *)
(***************************************************************************)
Finish(c, res) == [calls EXCEPT ![c].pc = "done", ![c].result = res, ![c].ref = Nil]

\* facades of which only run consults the store
CallStart_run_only(c, op, s) ==
  /\ calls[c].pc = "idle"
  /\ \A b \in Calls : b < c => calls[b].pc # "idle"
  /\ LET started == [calls EXCEPT ![c].op = op, ![c].sid = s]
     IN calls' =
          IF op # "RunCommand" THEN [started EXCEPT ![c].pc = "checked"]
          ELSE IF rows[s] = NoRow
            THEN [started EXCEPT ![c].pc = "done", ![c].result = Err("SandboxNotFound")]
          ELSE IF rows[s].state # "running"
            THEN [started EXCEPT ![c].pc = "done", ![c].result = Err("InvalidSandboxState")]
          ELSE [started EXCEPT ![c].pc = "checked"]
  /\ UNCHANGED <<storeVars, connections, pending_requests, conns, lifeVars, agentVars, trip, instant, waiter>>

\* repository.get(sandbox_id) and the state check; send_input skips both
CallStart(c, op, s) ==
  /\ calls[c].pc = "idle"
  /\ \A b \in Calls : b < c => calls[b].pc # "idle"
  /\ LET started == [calls EXCEPT ![c].op = op, ![c].sid = s]
     IN calls' =
          IF op = "PtyInput" THEN [started EXCEPT ![c].pc = "checked"]
          ELSE IF rows[s] = NoRow
            THEN [started EXCEPT ![c].pc = "done", ![c].result = Err("SandboxNotFound")]
          ELSE IF rows[s].state # "running"
            THEN [started EXCEPT ![c].pc = "done", ![c].result = Err("InvalidSandboxState")]
          ELSE [started EXCEPT ![c].pc = "checked"]
  /\ UNCHANGED <<storeVars, connections, pending_requests, conns, lifeVars, agentVars, trip, instant, waiter>>

\* the part of a pool operation after conn.tx.send(msg) has been accepted:
\* run_command drops the Ref and awaits the response, the others return Ok
Enqueued(c, k) ==
  /\ conns' = [conns EXCEPT ![k].msgq = Append(@, PoolMessage(calls[c].op, c))]
  /\ calls' = IF calls[c].op = "RunCommand"
                THEN [calls EXCEPT ![c].pc = "wait", ![c].ref = Nil, ![c].via = Some(k)]
                ELSE [calls EXCEPT ![c].pc = "done", ![c].ref = Nil, ![c].via = Some(k),
                                   ![c].result = Ok]

\* the part after conn.tx.send(msg) has failed: run_command removes its slot
SendFailed(c, pend) ==
  /\ calls' = Finish(c, Err("AgentCommunicationError"))
  /\ pending_requests' =
       IF calls[c].op = "RunCommand" THEN PendingRemove(pend, Uuid(c)) ELSE pend
  /\ UNCHANGED conns

\* is_connected, then connections.get, pending_requests.insert (run_command
\* only) and the first poll of conn.tx.send(msg)
CallArm(c) ==
  /\ calls[c].pc = "checked"
  /\ LET s == calls[c].sid
         armed == IF calls[c].op = "RunCommand"
                    THEN PendingInsert(pending_requests, Uuid(c), c)
                    ELSE pending_requests
     IN IF ~is_connected(s)
          THEN /\ calls' = Finish(c, Err("AgentNotConnected"))
               /\ UNCHANGED <<pending_requests, conns>>
          ELSE LET k == Val(connections[s])
               IN CASE SendOutcome(k) = "closed" -> SendFailed(c, armed)
                    [] SendOutcome(k) = "ok" ->
                         /\ Enqueued(c, k)
                         /\ pending_requests' = armed
                    [] OTHER ->
                         /\ calls' = [calls EXCEPT ![c].pc = "send", ![c].ref = Some(k)]
                         /\ pending_requests' = armed
                         /\ UNCHANGED conns
  /\ UNCHANGED <<storeVars, connections, lifeVars, agentVars, trip, instant, waiter>>

\* conn.tx.send(msg).await completing after it had to wait for room
CallSend(c) ==
  /\ calls[c].pc = "send"
  /\ LET k == Val(calls[c].ref)
     IN /\ SendOutcome(k) # "full"
        /\ IF SendOutcome(k) = "closed"
             THEN SendFailed(c, pending_requests)
             ELSE Enqueued(c, k) /\ UNCHANGED pending_requests
  /\ UNCHANGED <<storeVars, connections, lifeVars, agentVars, trip, instant, waiter>>

\* run_command: timeout(response_timeout, response_rx) yields Ok(Ok(response))
RunReceive(c) ==
  /\ calls[c].pc = "wait"
  /\ calls[c].slot # Nil
  /\ pending_requests' = PendingRemove(pending_requests, Uuid(c))
  /\ calls' = Finish(c, response_to_result(Val(calls[c].slot)))
  /\ UNCHANGED <<storeVars, connections, conns, lifeVars, agentVars, trip, instant, waiter>>

\* run_command whose Err(Elapsed) arm leaves its pending slot in the map
RunTimeout_keeps_slot(c) ==
  /\ calls[c].pc = "wait"
  /\ calls[c].slot = Nil
  /\ calls' = Finish(c, Err("ProcessTimeout"))
  /\ UNCHANGED <<storeVars, connections, pending_requests, conns, lifeVars, agentVars, trip, instant, waiter>>

\* run_command whose Err(Elapsed) arm also evicts the agent that did not answer
RunTimeout_evicts(c) ==
  /\ calls[c].pc = "wait"
  /\ calls[c].slot = Nil
  /\ pending_requests' = PendingRemove(pending_requests, Uuid(c))
  /\ calls' = Finish(c, Err("ProcessTimeout"))
  /\ connections' = unregister(calls[c].sid)
  /\ UNCHANGED <<storeVars, conns, lifeVars, agentVars, trip, instant, waiter>>

\* run_command: timeout(response_timeout, response_rx) yields Err(Elapsed)
RunTimeout(c) ==
  /\ calls[c].pc = "wait"
  /\ calls[c].slot = Nil
  /\ pending_requests' = PendingRemove(pending_requests, Uuid(c))
  /\ calls' = Finish(c, Err("ProcessTimeout"))
  /\ UNCHANGED <<storeVars, connections, conns, lifeVars, agentVars, trip, instant, waiter>>

(***************************************************************************)
(* The agent stream endpoint: AgentServiceImpl::connect (api/grpc/mod.rs). *)
(***************************************************************************)
\* handle_response that looks the waiter up with get() instead of remove()
handle_response_get(cid, p) ==
  IF pending_requests[cid] # Nil
    THEN LET w == Val(pending_requests[cid])
         IN /\ UNCHANGED pending_requests
            /\ calls' = IF calls[w].pc = "wait"
                          THEN [calls EXCEPT ![w].slot = Some(ConvertResponse(cid, p))]
                          ELSE calls
    ELSE UNCHANGED <<pending_requests, calls>>

\* handle_response that hands a response to the oldest waiter, whatever its id
handle_response_oldest(cid, p) ==
  LET waiting == {u \in Cids : pending_requests[u] # Nil}
  IN IF waiting # {}
       THEN LET u == CHOOSE x \in waiting : \A y \in waiting : x <= y
                w == Val(pending_requests[u])
            IN /\ pending_requests' = PendingRemove(pending_requests, u)
               /\ calls' = IF calls[w].pc = "wait"
                             THEN [calls EXCEPT ![w].slot = Some(ConvertResponse(cid, p))]
                             ELSE calls
       ELSE UNCHANGED <<pending_requests, calls>>

\* AgentConnPool::handle_response
handle_response(cid, p) ==
  IF pending_requests[cid] # Nil
    THEN LET w == Val(pending_requests[cid])
         IN /\ pending_requests' = PendingRemove(pending_requests, cid)
            \* sender.send(converted) fails when the receiver is gone
            /\ calls' = IF calls[w].pc = "wait"
                          THEN [calls EXCEPT ![w].slot = Some(ConvertResponse(cid, p))]
                          ELSE calls
    ELSE UNCHANGED <<pending_requests, calls>>

\* the first inbound message is a Handshake: register, HandshakeAck, forwarder
Handshake(k, s) ==
  /\ conns[k].phase = "new"
  /\ \A j \in Conns : j < k => conns[j].phase # "new"
  /\ ~RefHeld(s)
  /\ connections' = register(s, k)
  /\ conns' = [conns EXCEPT ![k].phase = "open", ![k].sid = s, ![k].fwd = TRUE,
                            ![k].last_heartbeat = instant,
                            ![k].wire = <<HandshakeAck(TRUE, Nil)>>]
  /\ UNCHANGED <<storeVars, pending_requests, calls, lifeVars, agentVars, trip, instant, waiter>>

\* a forwarder that is already running when the connection is registered
FwdRecv_before_ack(k) ==
  /\ conns[k].fwd
  /\ conns[k].hand = Nil
  /\ conns[k].msgq # << >>
  /\ conns' = [conns EXCEPT ![k].hand = Some(Head(conns[k].msgq)), ![k].msgq = Tail(@)]
  /\ UNCHANGED <<storeVars, connections, pending_requests, calls, lifeVars, agentVars, trip, instant, waiter>>

\* a forwarder that takes a copy of the message and leaves it in the queue
FwdRecv_keeps_message(k) ==
  /\ conns[k].fwd
  /\ conns[k].phase # "registered"
  /\ conns[k].hand = Nil
  /\ conns[k].msgq # << >>
  /\ conns' = [conns EXCEPT ![k].hand = Some(Head(conns[k].msgq))]
  /\ UNCHANGED <<storeVars, connections, pending_requests, calls, lifeVars, agentVars, trip, instant, waiter>>

\* forwarder: msg_rx.recv() yields a message; the task is spawned after the
\* HandshakeAck has been sent
FwdRecv(k) ==
  /\ conns[k].fwd
  /\ conns[k].phase # "registered"
  /\ conns[k].hand = Nil
  /\ conns[k].msgq # << >>
  /\ conns' = [conns EXCEPT ![k].hand = Some(Head(conns[k].msgq)), ![k].msgq = Tail(@)]
  /\ UNCHANGED <<storeVars, connections, pending_requests, calls, lifeVars, agentVars, trip, instant, waiter>>

\* connect(), first half of the Handshake arm: msg_tx/msg_rx are created and
\* agent_pool.register puts msg_tx into the registry
HandshakeRegister(k, s) ==
  /\ conns[k].phase = "new"
  /\ \A j \in Conns : j < k => conns[j].phase # "new"
  /\ ~RefHeld(s)
  /\ connections' = register(s, k)
  /\ conns' = [conns EXCEPT ![k].phase = "registered", ![k].sid = s, ![k].fwd = TRUE,
                            ![k].last_heartbeat = instant]
  /\ UNCHANGED <<storeVars, pending_requests, calls, lifeVars, agentVars, trip, instant, waiter>>

\* connect(), second half of the Handshake arm: HandshakeAck{success: true}
\* is sent on the empty tx (an error is ignored), then the forwarder is spawned
HandshakeReply(k) ==
  /\ conns[k].phase = "registered"
  /\ conns' = [conns EXCEPT
       ![k].phase = "open",
       ![k].wire = IF conns[k].wireOpen THEN Append(@, HandshakeAck(TRUE, Nil)) ELSE @]
  /\ UNCHANGED <<storeVars, connections, pending_requests, calls, lifeVars, agentVars, trip, instant, waiter>>

\* connect(), the first message is no Handshake: HandshakeAck{success:
\* false, error} is sent and the task returns
HandshakeRefuse(k) ==
  /\ conns[k].phase = "new"
  /\ \A j \in Conns : j < k => conns[j].phase # "new"
  /\ conns' = [conns EXCEPT
       ![k].phase = "closed",
       ![k].wire = Append(@, HandshakeAck(FALSE, Some("Expected handshake message")))]
  /\ UNCHANGED <<storeVars, connections, pending_requests, calls, lifeVars, agentVars, trip, instant, waiter>>

\* connect(), inbound.next() yields None or Some(Err(e)) instead of a first
\* message: the error is logged and the task returns
HandshakeAbsent(k) ==
  /\ conns[k].phase = "new"
  /\ \A j \in Conns : j < k => conns[j].phase # "new"
  /\ conns' = [conns EXCEPT ![k].phase = "closed", ![k].eof = TRUE]
  /\ UNCHANGED <<storeVars, connections, pending_requests, calls, lifeVars, agentVars, trip, instant, waiter>>

\* forwarder: tx_forward.send(Ok(server_msg)).await completes or fails
FwdSend(k) ==
  /\ conns[k].fwd
  /\ conns[k].hand # Nil
  /\ IF ~conns[k].wireOpen
       THEN conns' = [conns EXCEPT ![k].fwd = FALSE, ![k].hand = Nil, ![k].msgq = << >>]
       ELSE /\ Len(conns[k].wire) < WireCap
            /\ conns' = [conns EXCEPT
                            ![k].wire = Append(@, convert_pool_message_to_proto(Val(conns[k].hand))),
                            ![k].hand = Nil]
  /\ UNCHANGED <<storeVars, connections, pending_requests, calls, lifeVars, agentVars, trip, instant, waiter>>

\* forwarder: msg_rx.recv() yields None (every Sender dropped, queue drained)
FwdEnd(k) ==
  /\ conns[k].fwd
  /\ conns[k].phase # "registered"
  /\ conns[k].hand = Nil
  /\ conns[k].msgq = << >>
  /\ ~SenderAlive(k)
  /\ conns' = [conns EXCEPT ![k].fwd = FALSE]
  /\ UNCHANGED <<storeVars, connections, pending_requests, calls, lifeVars, agentVars, trip, instant, waiter>>

\* main loop: inbound.next() yields a CommandResponse
ServerRecv(k) ==
  /\ conns[k].phase = "open"
  /\ conns[k].inbound # << >>
  /\ Head(conns[k].inbound).type = "CommandResponse"
  /\ LET m == Head(conns[k].inbound)
     IN handle_response(m.cid, m.payload)
  /\ conns' = [conns EXCEPT ![k].inbound = Tail(@)]
  /\ UNCHANGED <<storeVars, connections, lifeVars, agentVars, trip, instant, waiter>>

\* a Heartbeat handler that stamps the ack with the server's own clock
ServerHeartbeat_server_clock(k) ==
  /\ conns[k].phase = "open"
  /\ conns[k].inbound # << >>
  /\ Head(conns[k].inbound).type = "Heartbeat"
  /\ IF ~conns[k].wireOpen
       THEN conns' = [conns EXCEPT ![k].inbound = Tail(@), ![k].heard = instant]
       ELSE /\ Len(conns[k].wire) < WireCap
            /\ conns' = [conns EXCEPT
                 ![k].inbound = Tail(@),
                 ![k].heard = instant,
                 ![k].wire = Append(@, ServerMsg("HeartbeatAck", now))]
  /\ UNCHANGED <<storeVars, connections, pending_requests, calls, lifeVars, agentVars, trip, instant, waiter>>

\* main loop: inbound.next() yields a Heartbeat; the HeartbeatAck is written
\* to the stream with tx_clone.send(..).await, whose failure is ignored
ServerHeartbeat(k) ==
  /\ conns[k].phase = "open"
  /\ conns[k].inbound # << >>
  /\ Head(conns[k].inbound).type = "Heartbeat"
  /\ IF ~conns[k].wireOpen
       THEN conns' = [conns EXCEPT ![k].inbound = Tail(@), ![k].heard = instant]
       ELSE /\ Len(conns[k].wire) < WireCap
            /\ conns' = [conns EXCEPT
                 ![k].inbound = Tail(@),
                 ![k].heard = instant,
                 ![k].wire = Append(@, ServerMsg("HeartbeatAck",
                                                 Head(conns[k].inbound).timestamp))]
  /\ UNCHANGED <<storeVars, connections, pending_requests, calls, lifeVars, agentVars, trip, instant, waiter>>

\* main loop: inbound.next() yields None or Err; then unregister
ServerEOF(k) ==
  /\ conns[k].phase = "open"
  /\ conns[k].inbound = << >>
  /\ conns[k].eof
  /\ ~RefHeld(conns[k].sid)
  /\ connections' = unregister(conns[k].sid)
  /\ conns' = [conns EXCEPT ![k].phase = "closed"]
  /\ UNCHANGED <<storeVars, pending_requests, calls, lifeVars, agentVars, trip, instant, waiter>>

(***************************************************************************)
(* The agent at the other end of a stream (environment).                   *)
(***************************************************************************)
\* the agent reads the next frame; a request's correlation id is remembered
AgentRecv(k) ==
  /\ conns[k].wireOpen
  /\ conns[k].wire # << >>
  /\ LET m == Head(conns[k].wire)
     IN conns' = [conns EXCEPT
          ![k].wire = Tail(@),
          ![k].got = IF m.type \in {"HandshakeAck", "HeartbeatAck", "PtyInput"}
                       THEN @ ELSE @ \cup {m.id}]
  /\ UNCHANGED <<storeVars, connections, pending_requests, calls, lifeVars, agentVars, trip, instant, waiter>>

\* the agent sends a CommandResponse for a request it has read
AgentReply(k, cid, p) ==
  /\ conns[k].phase = "open"
  /\ ~conns[k].eof
  /\ cid \in conns[k].got
  /\ Len(conns[k].inbound) < InCap
  /\ conns' = [conns EXCEPT ![k].inbound = Append(@, CommandResponse(cid, p))]
  /\ UNCHANGED <<storeVars, connections, pending_requests, calls, lifeVars, agentVars, trip, instant, waiter>>

\* an agent sends a CommandResponse with a correlation id of its own choosing
AgentForge(k, cid, p) ==
  /\ conns[k].phase = "open"
  /\ ~conns[k].eof
  /\ cid \notin conns[k].got
  /\ Len(conns[k].inbound) < InCap
  /\ conns' = [conns EXCEPT ![k].inbound = Append(@, CommandResponse(cid, p))]
  /\ UNCHANGED <<storeVars, connections, pending_requests, calls, lifeVars, agentVars, trip, instant, waiter>>

\* the agent sends a Heartbeat
AgentHeartbeat(k, ts) ==
  /\ conns[k].phase = "open"
  /\ ~conns[k].eof
  /\ Len(conns[k].inbound) < InCap
  /\ conns' = [conns EXCEPT ![k].inbound = Append(@, Heartbeat(ts))]
  /\ UNCHANGED <<storeVars, connections, pending_requests, calls, lifeVars, agentVars, trip, instant, waiter>>

\* the agent's stream ends (process exit, network error): the server's
\* inbound sees EOF after the frames already sent, the response stream is dropped
AgentClose(k) ==
  /\ conns[k].phase = "open"
  /\ ~conns[k].eof
  /\ conns' = [conns EXCEPT ![k].eof = TRUE, ![k].wireOpen = FALSE, ![k].wire = << >>]
  /\ UNCHANGED <<storeVars, connections, pending_requests, calls, lifeVars, agentVars, trip, instant, waiter>>

(***************************************************************************)
(* SandboxRepository (infra/sqlite.rs).                                    *)
(***************************************************************************)
\* the UPDATE/DELETE statements report rows_affected() == 0 as SandboxNotFound
RowExists(tbl, s) == tbl[s] # NoRow

\* SandboxRepository::get: the row, or SandboxNotFound when fetch_optional
\* finds none
repo_get(tbl, s) == IF RowExists(tbl, s) THEN Ok ELSE Err("SandboxNotFound")

\* SandboxRepository::create: INSERT with state Starting, no container id
repo_create(tbl, s, tmo, t) == [tbl EXCEPT ![s] = Row("starting", None, None, tmo, t)]

\* SandboxRepository::update_state: SET state = ?, error_message = ? WHERE id = ?
update_state(tbl, s, st, msg) == [tbl EXCEPT ![s].state = st, ![s].error_message = msg]

\* update_container_id that writes nothing
update_container_id_noop(tbl, s, cont) == tbl

\* SandboxRepository::update_container_id
update_container_id(tbl, s, cont) == [tbl EXCEPT ![s].container_id = cont]

\* delete that keeps the row and marks it Stopped
repo_delete_soft(tbl, s) == [tbl EXCEPT ![s].state = "stopped"]

\* SandboxRepository::delete
repo_delete(tbl, s) == [tbl EXCEPT ![s] = NoRow]

\* SQLite's datetime(): the time in whole seconds, the fraction dropped
datetime(t) == t \div TicksPerSecond

\* get_expired_sandboxes that also returns the rows without a timeout
get_expired_sandboxes_any_timeout(tbl, t) ==
  { s \in SandboxIds : /\ tbl[s] # NoRow
                        /\ tbl[s].state = "running"
                        /\ datetime(tbl[s].created_at) + tbl[s].timeout < datetime(t) }

\* SandboxRepository::get_expired_sandboxes: WHERE state = 'running' AND
\* timeout > 0 AND datetime(created_at, '+timeout seconds') < datetime(now)
get_expired_sandboxes(tbl, t) ==
  { s \in SandboxIds : /\ tbl[s] # NoRow
                        /\ tbl[s].state = "running"
                        /\ tbl[s].timeout > 0
                        /\ datetime(tbl[s].created_at) + tbl[s].timeout < datetime(t) }

(***************************************************************************)
(* SandboxService::delete (service/sandbox.rs).                            *)
(***************************************************************************)
DelFinish(d, res) == [dels EXCEPT ![d].pc = "done", ![d].result = res]

\* delete without the state check
DeleteBegin_unchecked(d, s, force) ==
  /\ dels[d].pc = "idle"
  /\ \A b \in Deletes : b < d => dels[b].pc # "idle"
  /\ LET begun == [dels EXCEPT ![d].sid = s, ![d].force = force]
     IN dels' =
          IF ~RowExists(rows, s)
            THEN [begun EXCEPT ![d].pc = "done", ![d].result = Err("SandboxNotFound")]
          ELSE [begun EXCEPT ![d].pc = "update_state",
                             ![d].container_id = rows[s].container_id]

\* repository.get(id) and the state check
DeleteBegin(d, s, force) ==
  /\ dels[d].pc = "idle"
  /\ \A b \in Deletes : b < d => dels[b].pc # "idle"
  /\ LET begun == [dels EXCEPT ![d].sid = s, ![d].force = force]
     IN dels' =
          IF ~RowExists(rows, s)
            THEN [begun EXCEPT ![d].pc = "done", ![d].result = Err("SandboxNotFound")]
          ELSE IF ~force /\ rows[s].state = "running"
            THEN [begun EXCEPT ![d].pc = "done", ![d].result = Err("InvalidSandboxState")]
          ELSE [begun EXCEPT ![d].pc = "update_state",
                             ![d].container_id = rows[s].container_id]

DeleteStart(d, s, force) ==
  /\ DeleteBegin(d, s, force)
  /\ UNCHANGED <<storeVars, connections, pending_requests, conns, calls, creates, sweep, agentVars, trip, instant, waiter>>

\* repository.update_state(id, Stopping, None)
DeleteUpdateState(d) ==
  /\ dels[d].pc = "update_state"
  /\ IF RowExists(rows, dels[d].sid)
       THEN /\ rows' = update_state(rows, dels[d].sid, "stopping", None)
            /\ dels' = [dels EXCEPT ![d].pc = "container"]
       ELSE /\ dels' = DelFinish(d, Err("SandboxNotFound"))
            /\ UNCHANGED rows
  /\ UNCHANGED <<containers, now, wsVars, connections, pending_requests, conns, calls, creates, sweep, agentVars, trip, instant, waiter>>

\* stop_container (only when not forced; its failure is logged) and
\* remove_container (its failure is logged); skipped without a container id
DeleteContainer(d, removed) ==
  /\ dels[d].pc = "container"
  /\ containers' = IF dels[d].container_id # None /\ removed
                     THEN containers \ {dels[d].container_id}
                     ELSE containers
  /\ dels' = [dels EXCEPT ![d].pc = "unregister"]
  /\ UNCHANGED <<rows, now, wsVars, connections, pending_requests, conns, calls, creates, sweep, agentVars, trip, instant, waiter>>

\* agent_pool.unregister(id)
DeleteUnregister(d) ==
  /\ dels[d].pc = "unregister"
  /\ ~RefHeld(dels[d].sid)
  /\ connections' = unregister(dels[d].sid)
  /\ dels' = [dels EXCEPT ![d].pc = "db_delete"]
  /\ UNCHANGED <<storeVars, pending_requests, conns, calls, creates, sweep, agentVars, trip, instant, waiter>>

\* repository.delete(id), then Ok
DeleteRow(d) ==
  /\ dels[d].pc = "db_delete"
  /\ IF RowExists(rows, dels[d].sid)
       THEN /\ rows' = repo_delete(rows, dels[d].sid)
            /\ dels' = DelFinish(d, Ok)
       ELSE /\ dels' = DelFinish(d, Err("SandboxNotFound"))
            /\ UNCHANGED rows
  /\ UNCHANGED <<containers, now, wsVars, connections, pending_requests, conns, calls, creates, sweep, agentVars, trip, instant, waiter>>

(***************************************************************************)
(* SandboxService::create (service/sandbox.rs).                            *)
(***************************************************************************)
\* CreateSandboxParams.timeout values tried
Timeouts == {0, 1}

CreateFinish(t, res) == [creates EXCEPT ![t].pc = "done", ![t].result = res]

\* Uuid::new_v4() in SandboxRepository::create: an id no create has used
FreshId(s) == /\ \A t \in Creates : creates[t].sid # s
              /\ ~RowExists(rows, s)

\* repository.update_state(..).await? inside create: on SandboxNotFound create
\* returns that error, otherwise it goes on to `next` (or returns `res`)
CreateUpdateState(t, st, msg, next, res) ==
  IF RowExists(rows, creates[t].sid)
    THEN /\ rows' = update_state(rows, creates[t].sid, st, msg)
         /\ creates' = IF next = "done" THEN CreateFinish(t, res)
                        ELSE [creates EXCEPT ![t].pc = next]
    ELSE /\ creates' = CreateFinish(t, Err("SandboxNotFound"))
         /\ UNCHANGED rows

\* workspace_repo.get(&params.workspace_id)
CreateStart(t, w) ==
  /\ creates[t].pc = "idle"
  /\ \A b \in Creates : b < t => creates[b].pc # "idle"
  /\ creates' = IF w \in workspaces
                  THEN [creates EXCEPT ![t].pc = "insert", ![t].ws = w]
                  ELSE [creates EXCEPT ![t].pc = "done", ![t].ws = w,
                                       ![t].result = Err("WorkspaceNotFound")]
  /\ UNCHANGED <<storeVars, connections, pending_requests, conns, calls, dels, sweep, agentVars, trip, instant, waiter>>

\* repository.create(params): the row is inserted in state Starting
CreateInsert(t, s, tmo) ==
  /\ creates[t].pc = "insert"
  /\ FreshId(s)
  /\ rows' = [repo_create(rows, s, tmo, now) EXCEPT ![s] = with_workspace(@, creates[t].ws)]
  /\ creates' = [creates EXCEPT ![t].pc = "container", ![t].sid = s]
  /\ UNCHANGED <<containers, now, wsVars, connections, pending_requests, conns, calls, dels, sweep, agentVars, trip, instant, waiter>>

\* workspace_dir.exists(), then docker.create_container(container_opts)
CreateContainer(t, outcome) ==
  /\ creates[t].pc = "container"
  /\ CASE outcome = "no_workspace_dir" ->
            /\ CreateUpdateState(t, "error", "Workspace directory not found", "done",
                                  Err("Internal"))
            /\ UNCHANGED containers
       [] outcome = "create_failed" ->
            /\ IF RowExists(rows, creates[t].sid)
                 THEN /\ rows' = update_state(rows, creates[t].sid, "error", "DockerError")
                      /\ creates' = [creates EXCEPT ![t].pc = "done", ![t].tries = @ + 1,
                                                     ![t].result = Err("DockerError")]
                 ELSE /\ creates' = [creates EXCEPT ![t].pc = "done", ![t].tries = @ + 1,
                                                     ![t].result = Err("SandboxNotFound")]
                      /\ UNCHANGED rows
            /\ UNCHANGED containers
       [] OTHER ->
            /\ containers' = containers \cup {creates[t].sid}
            /\ creates' = [creates EXCEPT ![t].pc = "update_container_id", ![t].tries = @ + 1]
            /\ UNCHANGED rows
  /\ UNCHANGED <<now, wsVars, connections, pending_requests, conns, calls, dels, sweep, agentVars, trip, instant, waiter>>

\* repository.update_container_id(&sandbox_id, &container_id).await?
CreateUpdateContainerId(t) ==
  /\ creates[t].pc = "update_container_id"
  /\ IF RowExists(rows, creates[t].sid)
       THEN /\ rows' = update_container_id(rows, creates[t].sid, creates[t].sid)
            /\ creates' = [creates EXCEPT ![t].pc = "start"]
       ELSE /\ creates' = CreateFinish(t, Err("SandboxNotFound"))
            /\ UNCHANGED rows
  /\ UNCHANGED <<containers, now, wsVars, connections, pending_requests, conns, calls, dels, sweep, agentVars, trip, instant, waiter>>

\* create that marks the sandbox Error without removing the container
CreateStartContainer_no_cleanup(t, started) ==
  /\ creates[t].pc = "start"
  /\ creates' = [creates EXCEPT ![t].pc = IF started THEN "wait_agent" ELSE "mark_error"]
  /\ UNCHANGED <<storeVars, connections, pending_requests, conns, calls, dels, sweep, agentVars, trip, instant, waiter>>

\* docker.start_container(&container_id)
CreateStartContainer(t, started) ==
  /\ creates[t].pc = "start"
  /\ creates' = [creates EXCEPT ![t].pc = IF started THEN "wait_agent" ELSE "cleanup"]
  /\ UNCHANGED <<storeVars, connections, pending_requests, conns, calls, dels, sweep, agentVars, trip, instant, waiter>>

\* start failed: let _ = docker.remove_container(&container_id, true)
CreateCleanup(t, removed) ==
  /\ creates[t].pc = "cleanup"
  /\ containers' = IF removed THEN containers \ {creates[t].sid} ELSE containers
  /\ creates' = [creates EXCEPT ![t].pc = "mark_error", ![t].cleanups = @ + 1]
  /\ UNCHANGED <<rows, now, wsVars, connections, pending_requests, conns, calls, dels, sweep, agentVars, trip, instant, waiter>>

\* start failed: update_state(Error, message), then return the error
CreateMarkError(t) ==
  /\ creates[t].pc = "mark_error"
  /\ CreateUpdateState(t, "error", "DockerError", "done", Err("DockerError"))
  /\ UNCHANGED <<containers, now, wsVars, connections, pending_requests, conns, calls, dels, sweep, agentVars, trip, instant, waiter>>

\* create that treats AgentConnectionTimeout as a failure of the sandbox
CreateWaitAgent_fails(t, timedOut) ==
  /\ creates[t].pc = "wait_agent"
  /\ timedOut \/ is_connected(creates[t].sid)
  /\ creates' = [creates EXCEPT ![t].pc = IF timedOut THEN "mark_error" ELSE "mark_running",
                                ![t].waited = IF timedOut THEN "timeout" ELSE "connected"]
  /\ UNCHANGED <<storeVars, connections, pending_requests, conns, calls, dels, sweep, agentVars, trip, instant, waiter>>

\* agent_pool.wait_for_connection(&sandbox_id, agent_timeout): Ok once
\* is_connected is seen, AgentConnectionTimeout once the budget is used up
CreateWaitAgent(t, timedOut) ==
  /\ creates[t].pc = "wait_agent"
  /\ timedOut \/ is_connected(creates[t].sid)
  /\ creates' = [creates EXCEPT ![t].pc = "mark_running",
                                ![t].waited = IF timedOut THEN "timeout" ELSE "connected"]
  /\ UNCHANGED <<storeVars, connections, pending_requests, conns, calls, dels, sweep, agentVars, trip, instant, waiter>>

\* update_state(Running, None) in both arms of the match
CreateMarkRunning(t) ==
  /\ creates[t].pc = "mark_running"
  /\ CreateUpdateState(t, "running", None, "fetch", Ok)
  /\ UNCHANGED <<containers, now, wsVars, connections, pending_requests, conns, calls, dels, sweep, agentVars, trip, instant, waiter>>

\* self.repository.get(&sandbox_id)
CreateFetch(t) ==
  /\ creates[t].pc = "fetch"
  /\ creates' = CreateFinish(t, repo_get(rows, creates[t].sid))
  /\ UNCHANGED <<storeVars, connections, pending_requests, conns, calls, dels, sweep, agentVars, trip, instant, waiter>>

(***************************************************************************)
(* SandboxService::cleanup_expired (service/sandbox.rs).                   *)
(***************************************************************************)
\* repository.get_expired_sandboxes()
SweepSelect ==
  /\ sweep.pc = "idle"
  /\ sweep' = [sweep EXCEPT !.pc = "loop", !.todo = get_expired_sandboxes(rows, now)]
  /\ UNCHANGED <<storeVars, connections, pending_requests, conns, calls, dels, creates, agentVars, trip, instant, waiter>>

\* for sandbox in expired: self.delete(&sandbox.id, true) begins
SweepDelete(d, s) ==
  /\ sweep.pc = "loop"
  /\ sweep.busy = Nil
  /\ s \in sweep.todo
  /\ DeleteBegin(d, s, TRUE)
  /\ sweep' = [sweep EXCEPT !.todo = @ \ {s}, !.busy = Some(d)]
  /\ UNCHANGED <<storeVars, connections, pending_requests, conns, calls, creates, agentVars, trip, instant, waiter>>

\* self.delete(..) has returned: a success is pushed onto `deleted`
SweepJoin ==
  /\ sweep.pc = "loop"
  /\ sweep.busy # Nil
  /\ dels[Val(sweep.busy)].pc = "done"
  /\ sweep' = [sweep EXCEPT
       !.busy = Nil,
       !.deleted = IF dels[Val(sweep.busy)].result = Ok
                     THEN @ \cup {dels[Val(sweep.busy)].sid} ELSE @]
  /\ UNCHANGED <<storeVars, connections, pending_requests, conns, calls, dels, creates, agentVars, trip, instant, waiter>>

\* the loop has run out: Ok(deleted)
SweepEnd ==
  /\ sweep.pc = "loop"
  /\ sweep.busy = Nil
  /\ sweep.todo = {}
  /\ sweep' = [sweep EXCEPT !.pc = "done"]
  /\ UNCHANGED <<storeVars, connections, pending_requests, conns, calls, dels, creates, agentVars, trip, instant, waiter>>

(***************************************************************************)
(* WorkspaceService::delete (service/workspace.rs).                        *)
(***************************************************************************)
\* WorkspaceRepository::has_sandboxes: COUNT(*) of the rows of that workspace
has_sandboxes(tbl, w) == \E s \in SandboxIds : RowExists(tbl, s) /\ tbl[s].workspace_id = w

\* repository.has_sandboxes(id): refuse, or go on to remove the workspace
WsDeleteStart(x, w) ==
  /\ wsdel[x].pc = "idle"
  /\ \A b \in WsDeletes : b < x => wsdel[b].pc # "idle"
  /\ wsdel' = IF has_sandboxes(rows, w)
                THEN [wsdel EXCEPT ![x].pc = "done", ![x].ws = w,
                                   ![x].result = Err("WorkspaceHasActiveSandboxes")]
                ELSE [wsdel EXCEPT ![x].pc = "db_delete", ![x].ws = w]
  /\ UNCHANGED <<rows, containers, now, workspaces, connections, pending_requests, conns,
                 calls, lifeVars, agentVars, trip, instant, waiter>>

\* nfs unexport and remove_dir_all, then repository.delete(id)
WsDeleteRow(x) ==
  /\ wsdel[x].pc = "db_delete"
  /\ IF wsdel[x].ws \in workspaces
       THEN /\ workspaces' = workspaces \ {wsdel[x].ws}
            /\ wsdel' = [wsdel EXCEPT ![x].pc = "done", ![x].result = Ok]
       ELSE /\ wsdel' = [wsdel EXCEPT ![x].pc = "done",
                                      ![x].result = Err("WorkspaceNotFound")]
            /\ UNCHANGED workspaces
  /\ UNCHANGED <<rows, containers, now, connections, pending_requests, conns, calls, lifeVars, agentVars, trip, instant, waiter>>

\* time passes
Tick ==
  /\ now < MaxTime
  /\ now' = now + 1
  /\ UNCHANGED <<rows, containers, wsVars, connections, pending_requests, conns, calls, lifeVars,
                 agentVars, trip, instant, waiter>>

(***************************************************************************)
(* The agent: ConnectionManager (agent/src/connection.rs) and PtyManager   *)
(* (agent/src/handlers/pty.rs).                                            *)
(***************************************************************************)
PtyIds == 1 .. (max_ptys + 1)
\* correlation ids of the requests the agent is sent
AgentCids == {201}
serverVars == <<rows, containers, connections, pending_requests, conns, calls, dels, creates,
                sweep, workspaces, wsdel, trip, instant, waiter, now>>

Min(a, b) == IF a < b THEN a ELSE b

\* AgentCommandResponse built from a handler's Result: Success{exit_code 0}
\* or Error{code 1, message e.to_string()}
AgentResponse(cid, res) ==
  [type |-> "CommandResponse", cid |-> cid,
   kind |-> IF res = Ok THEN "Success" ELSE "Error",
   message |-> IF res = Ok THEN "" ELSE res.kind]

\* connect_and_run gets through channel connect, client.connect, the
\* handshake and its ack: self.connected becomes true, the message loop starts
AgentConnectOk ==
  /\ agent.pc = "connecting"
  /\ agent' = [agent EXCEPT !.pc = "running", !.connected = TRUE, !.streak = 0,
                            !.ended = "none"]
  /\ UNCHANGED <<ptys, out, serverVars>>

\* run(), the Err arm: connected = false, the attempt counts as failed
Failed(how) ==
  [agent EXCEPT !.pc = "backoff", !.connected = FALSE, !.streak = @ + 1,
                !.failures = @ + 1, !.ended = how, !.sending = Nil]

\* connect_and_run returns Err before the message loop: connect timeout or
\* error, handshake not sent, no ack within 10 s, ack with success = false
AgentConnectFail ==
  /\ agent.pc = "connecting"
  /\ agent.failures < MaxFailures
  /\ agent' = Failed(agent.ended)
  /\ out' = << >>
  /\ UNCHANGED <<ptys, serverVars>>

\* inbound.next() yields Some(Err(status)): `msg_result?` returns the error
AgentStreamError ==
  /\ agent.pc = "running"
  /\ agent.sending = Nil
  /\ agent.failures < MaxFailures
  /\ agent' = Failed("error")
  /\ out' = << >>
  /\ UNCHANGED <<ptys, serverVars>>

\* inbound.next() yields None: the loop ends, connect_and_run returns Ok(())
\* and run() breaks out of its loop
AgentStreamEOF ==
  /\ agent.pc = "running"
  /\ agent.sending = Nil
  /\ agent' = [agent EXCEPT !.pc = "exited", !.connected = FALSE, !.ended = "eof"]
  /\ out' = << >>
  /\ UNCHANGED <<ptys, serverVars>>

\* run(), the Err arm after the error is logged: sleep(reconnect_delay),
\* then reconnect_delay = min(reconnect_delay * 2, RECONNECT_MAX_DELAY) and
\* the loop calls connect_and_run again
AgentSleep ==
  /\ agent.pc = "backoff"
  /\ agent' = [agent EXCEPT
       !.pc = "connecting",
       !.slept = agent.reconnect_delay,
       !.reconnect_delay = Min(agent.reconnect_delay * 2, RECONNECT_MAX_DELAY)]
  /\ UNCHANGED <<ptys, out, serverVars>>

\* run(), the shutdown_rx arm of select!: connect_and_run is dropped
AgentShutdown ==
  /\ agent.pc \in {"connecting", "running"}
  /\ agent' = [agent EXCEPT !.pc = "exited", !.ended = "shutdown", !.sending = Nil]
  /\ out' = << >>
  /\ UNCHANGED <<ptys, serverVars>>

\* PtyManager::create that inserts without looking at the number of PTYs
pty_create_unbounded(m, id, spawned) ==
  IF ~spawned THEN [map |-> m, res |-> Err("spawn failed")]
  ELSE [map |-> m \cup {id}, res |-> Ok]

\* PtyManager::create: refused at max_ptys; openpty or spawn_command may
\* fail; otherwise the instance is inserted under id
pty_create(m, id, spawned) ==
  IF Cardinality(m) >= max_ptys THEN [map |-> m, res |-> Err("Maximum number of PTYs reached")]
  ELSE IF ~spawned THEN [map |-> m, res |-> Err("spawn failed")]
  ELSE [map |-> m \cup {id}, res |-> Ok]

\* PtyManager::resize
pty_resize(m, id) == IF id \in m THEN Ok ELSE Err("PTY not found")

\* PtyManager::kill
pty_kill(m, id) ==
  IF id \in m THEN [map |-> m \ {id}, res |-> Ok]
  ELSE [map |-> m, res |-> Err("PTY not found")]

\* PtyManager::write
pty_write(m, id) == IF id \in m THEN Ok ELSE Err("PTY not found")

\* the message loop is at inbound.next()
AgentIdle == agent.pc = "running" /\ agent.sending = Nil

\* the loop reads a CreatePty
AgentCreatePty(cid, id, spawned) ==
  /\ AgentIdle
  /\ LET r == pty_create(ptys, id, spawned)
     IN /\ ptys' = r.map
        /\ agent' = [agent EXCEPT !.sending = Some(AgentResponse(cid, r.res))]
  /\ UNCHANGED <<out, serverVars>>

\* the loop reads a ResizePty
AgentResizePty(cid, id) ==
  /\ AgentIdle
  /\ agent' = [agent EXCEPT !.sending = Some(AgentResponse(cid, pty_resize(ptys, id)))]
  /\ UNCHANGED <<ptys, out, serverVars>>

\* the loop reads a KillPty
AgentKillPty(cid, id) ==
  /\ AgentIdle
  /\ LET r == pty_kill(ptys, id)
     IN /\ ptys' = r.map
        /\ agent' = [agent EXCEPT !.sending = Some(AgentResponse(cid, r.res)),
                                  !.unread = @ \ {id}]
  /\ UNCHANGED <<out, serverVars>>

\* the loop reads a PtyInput: the bytes are written to the master, the
\* result is dropped; the shell behind a live PTY answers with output
AgentPtyInput(id) ==
  /\ AgentIdle
  /\ agent' = [agent EXCEPT !.unread = IF pty_write(ptys, id) = Ok THEN @ \cup {id} ELSE @]
  /\ UNCHANGED <<ptys, out, serverVars>>

\* tx.send(response).await: waits for room in the channel
AgentSendResponse ==
  /\ agent.pc = "running"
  /\ agent.sending # Nil
  /\ Len(out) < AgentOutCap
  /\ out' = Append(out, Val(agent.sending))
  /\ agent' = [agent EXCEPT !.sending = Nil]
  /\ UNCHANGED <<ptys, serverVars>>

\* the stream takes the next frame out of rx_stream
AgentWire ==
  /\ agent.pc \in {"handshaking", "running"}
  /\ out # << >>
  /\ out' = Tail(out)
  /\ UNCHANGED <<agent, ptys, serverVars>>

\* AgentMessage{Handshake{sandbox_id, version}}
AgentHandshake(s) == [type |-> "Handshake", sandbox_id |-> s]

\* connect_and_run up to the handshake: the channel and the stream are
\* opened, then Handshake is sent on the new tx
AgentSendHandshake(s) ==
  /\ agent.pc = "connecting"
  /\ agent' = [agent EXCEPT !.pc = "handshaking"]
  /\ out' = <<AgentHandshake(s)>>
  /\ UNCHANGED <<ptys, serverVars>>

\* what timeout(10 s, inbound.next()) can yield: an acknowledgment with
\* success true or false, any other server message, the end of the stream,
\* a stream error, or nothing before the deadline
FirstReplies == {"ack", "refused", "other", "eof", "error", "timeout"}

\* a wait that takes any HandshakeAck for a success
AgentFirstReply_any_ack(r) ==
  /\ agent.pc = "handshaking"
  /\ IF r \in {"ack", "refused"}
       THEN /\ agent' = [agent EXCEPT !.pc = "running", !.connected = TRUE, !.streak = 0,
                                      !.ended = "none", !.reply = r]
            /\ UNCHANGED out
       ELSE /\ agent.failures < MaxFailures
            /\ agent' = [Failed(agent.ended) EXCEPT !.reply = r]
            /\ out' = << >>
  /\ UNCHANGED <<ptys, serverVars>>

\* connect_and_run, the wait for the acknowledgment: HandshakeAck{success:
\* true} sets connected, spawns the heartbeat task and enters the message
\* loop; everything else is an Err, which run() answers with the backoff
AgentFirstReply(r) ==
  /\ agent.pc = "handshaking"
  /\ IF r = "ack"
       THEN /\ agent' = [agent EXCEPT !.pc = "running", !.connected = TRUE, !.streak = 0,
                                      !.ended = "none", !.reply = r]
            /\ UNCHANGED out
       ELSE /\ agent.failures < MaxFailures
            /\ agent' = [Failed(agent.ended) EXCEPT !.reply = r]
            /\ out' = << >>
  /\ UNCHANGED <<ptys, serverVars>>

\* the heartbeat task, spawned after the acknowledgment: every
\* HEARTBEAT_INTERVAL it sends Heartbeat{timestamp} on its clone of tx
AgentBeat(ts) ==
  /\ agent.pc = "running"
  /\ Len(out) < AgentOutCap
  /\ out' = Append(out, Heartbeat(ts))
  /\ UNCHANGED <<agent, ptys, serverVars>>

\* correlation ids of the RunCommand and KillProcess requests the agent is sent
RunCids == {201, 202}

\* process::run_command up to cmd.spawn()?: an Err before anything is sent on
\* output_tx when the child cannot be spawned; otherwise the output lines and
\* Exit(code) are sent
run_command(spawned, code) ==
  IF spawned THEN [res |-> Ok, events |-> <<code>>]
  ELSE [res |-> Err("spawn failed"), events |-> << >>]

\* handle_run_command: run_command runs in its own task and its Result is
\* dropped; the Exit events are read until output_tx is dropped; exit_code
\* starts at 0; the function has no Err return
handle_run_command(spawned, code) ==
  LET events == run_command(spawned, code).events
  IN [kind |-> "Ok", exit_code |-> IF events = << >> THEN 0 ELSE events[Len(events)]]

\* AgentCommandResponse of the RunCommand arm: Success{exit_code, ..} for
\* Ok, Error{code: 1, message} for Err
RunResponse(cid, result) ==
  [type |-> "CommandResponse", cid |-> cid,
   kind |-> IF result.kind = "Ok" THEN "Success" ELSE "Error",
   message |-> IF result.kind = "Ok" THEN "" ELSE result.kind]

\* the connection the agent is on, counted by the attempts that failed before
AgentConn == agent.failures

\* the loop reads a RunCommand: a task is spawned with a clone of this
\* connection's tx, the loop goes on
AgentRunCommand(cid, spawned, code) ==
  /\ AgentIdle
  /\ Cardinality(agent.tasks) < MaxTasks
  /\ \A t \in agent.tasks : t.cid # cid
  /\ agent' = [agent EXCEPT !.tasks = @ \cup
                  {[cid |-> cid, conn |-> AgentConn, spawned |-> spawned, code |-> code]}]
  /\ UNCHANGED <<ptys, out, serverVars>>

\* a RunCommand task that sends on whatever connection the agent has now
AgentRunDone_current_tx(t) ==
  /\ t \in agent.tasks
  /\ IF agent.pc = "running"
       THEN /\ Len(out) < AgentOutCap
            /\ out' = Append(out, RunResponse(t.cid, handle_run_command(t.spawned, t.code)))
       ELSE UNCHANGED out
  /\ agent' = [agent EXCEPT !.tasks = @ \ {t}]
  /\ UNCHANGED <<ptys, serverVars>>

\* the task of a RunCommand ends: handle_run_command returns and the
\* response is sent on the tx the task took; the send fails, and the error
\* is ignored, when that connection's channel is gone
AgentRunDone(t) ==
  /\ t \in agent.tasks
  /\ IF agent.pc = "running" /\ t.conn = AgentConn
       THEN /\ Len(out) < AgentOutCap
            /\ out' = Append(out, RunResponse(t.cid, handle_run_command(t.spawned, t.code)))
       ELSE UNCHANGED out
  /\ agent' = [agent EXCEPT !.tasks = @ \ {t}]
  /\ UNCHANGED <<ptys, serverVars>>

\* the loop reads a KillProcess: process::kill_process, then the response
AgentKillProcess(cid, killed) ==
  /\ AgentIdle
  /\ agent' = [agent EXCEPT !.sending =
                  Some(AgentResponse(cid, IF killed THEN Ok ELSE Err("kill failed")))]
  /\ UNCHANGED <<ptys, out, serverVars>>

(***************************************************************************)
(* PTY operations from the facade to the agent's PtyManager.               *)
(***************************************************************************)
PtyOps == {"CreatePty", "ResizePty", "KillPty"}

\* Uuid::new_v4() for the pty_id of the create made by call c
PtyUuid(c) == c

\* PtyService::create, resize and kill up to the pool call: the same checks
\* as CallStart; create makes its own pty_id, the others are given one
PtyStart(c, op, s, p) ==
  /\ op \in PtyOps
  /\ calls[c].pc = "idle"
  /\ \A b \in Calls : b < c => calls[b].pc # "idle"
  /\ LET started == [calls EXCEPT ![c].op = op, ![c].sid = s,
                                  ![c].pty = IF op = "CreatePty" THEN PtyUuid(c) ELSE p]
     IN calls' =
          IF rows[s] = NoRow
            THEN [started EXCEPT ![c].pc = "done", ![c].result = Err("SandboxNotFound")]
          ELSE IF rows[s].state # "running"
            THEN [started EXCEPT ![c].pc = "done", ![c].result = Err("InvalidSandboxState")]
          ELSE [started EXCEPT ![c].pc = "checked"]
  /\ UNCHANGED <<storeVars, connections, pending_requests, conns, lifeVars, agentVars, trip, instant, waiter>>

\* what the PtyManager does with a PTY request
PtyOutcome(m, map, spawned) ==
  CASE m.type = "CreatePty" -> pty_create(map, m.pty, spawned)
    [] m.type = "KillPty" -> pty_kill(map, m.pty)
    [] OTHER -> [map |-> map, res |-> pty_resize(map, m.pty)]

\* the `result` oneof of the AgentCommandResponse built from a handler's Result
PtyPayload(res) ==
  IF res = Ok
    THEN [kind |-> "Success", exit_code |-> 0, stdout |-> "", stderr |-> "", message |-> ""]
    ELSE [kind |-> "Error", exit_code |-> 0, stdout |-> "", stderr |-> "", message |-> res.kind]

\* the agent's message loop reads a CreatePty, ResizePty or KillPty, runs it
\* on the PtyManager and sends the CommandResponse
AgentServePty(k, spawned) ==
  /\ conns[k].wireOpen
  /\ conns[k].wire # << >>
  /\ Head(conns[k].wire).type \in PtyOps
  /\ ~conns[k].eof
  /\ Len(conns[k].inbound) < InCap
  /\ LET m == Head(conns[k].wire)
         r == PtyOutcome(m, ptys, spawned)
     IN /\ ptys' = r.map
        /\ conns' = [conns EXCEPT
             ![k].wire = Tail(@),
             ![k].got = @ \cup {m.id},
             ![k].inbound = Append(@, CommandResponse(m.id, PtyPayload(r.res)))]
  /\ UNCHANGED <<storeVars, connections, pending_requests, calls, lifeVars, agent, out, trip, instant, waiter>>

\* the agent reads a frame that is no PTY request
AgentRecvOther(k) ==
  /\ conns[k].wire # << >>
  /\ Head(conns[k].wire).type \notin PtyOps
  /\ AgentRecv(k)

(***************************************************************************)
(* SandboxRepository::create and get on the columns of a row                *)
(* (infra/sqlite.rs).                                                       *)
(***************************************************************************)
\* HashMap<String, String> values of env and metadata
EmptyMap == [k \in {} |-> ""]
Maps == {EmptyMap, [k \in {"A"} |-> "1"], [k \in {"A", "B"} |-> IF k = "A" THEN "1" ELSE ""]}

\* u64 values of params.timeout: small ones, the first that is negative as
\* i64 and the largest
TimeoutValues == {0, 1, 2^(TimeoutBits - 1) - 1, 2^(TimeoutBits - 1), 2^TimeoutBits - 1}

\* CreateSandboxParams
ParamsSet ==
  [ template : {Nil, Some("python:3.11")},
    name : {Nil, Some("test-sandbox")},
    env : {Nil} \cup {Some(m) : m \in Maps},
    metadata : {Nil, Some([k \in {"owner"} |-> "x"])},
    timeout : {Nil} \cup {Some(t) : t \in TimeoutValues} ]

\* serde_json::to_string of a map: the object's members, in no order
to_json(m) == {<<k, m[k]>> : k \in DOMAIN m}

\* serde_json::from_str into a HashMap
from_json(j) == [k \in {e[1] : e \in j} |-> (CHOOSE e \in j : e[1] = k)[2]]

\* `as i64` of a u64: the same bits, read as two's complement
as_i64(u) == IF u >= 2^(TimeoutBits - 1) THEN u - 2^TimeoutBits ELSE u

\* `as u64` of an i64 that keeps the number instead of the bits
as_u64_magnitude(i) == IF i < 0 THEN 0 - i ELSE i

\* `as u64` of an i64: the same bits, read as unsigned
as_u64(i) == IF i < 0 THEN i + 2^TimeoutBits ELSE i

\* SandboxState::as_str
as_str(st) ==
  CASE st = "Starting" -> "starting"
    [] st = "Running" -> "running"
    [] st = "Stopping" -> "stopping"
    [] st = "Stopped" -> "stopped"
    [] OTHER -> "error"

\* SandboxState::from_str
from_str(str) ==
  CASE str = "starting" -> Some("Starting")
    [] str = "running" -> Some("Running")
    [] str = "stopping" -> Some("Stopping")
    [] str = "stopped" -> Some("Stopped")
    [] str = "error" -> Some("Error")
    [] OTHER -> Nil

\* the row SandboxRepository::create inserts for params p under id at time t
InsertedRow(id, p, t) ==
  [ id |-> id,
    name |-> p.name,
    template |-> unwrap_or(p.template, "default"),
    state |-> as_str("Starting"),
    container_id |-> Nil,
    env |-> to_json(unwrap_or(p.env, EmptyMap)),
    metadata |-> to_json(unwrap_or(p.metadata, EmptyMap)),
    timeout |-> as_i64(unwrap_or(p.timeout, 0)),
    error_message |-> Nil,
    created_at |-> t,
    updated_at |-> t ]

\* TryFrom<SandboxRow> for Sandbox: Internal error on an unknown state
try_from(row) ==
  IF from_str(row.state) = Nil THEN Err("Internal")
  ELSE [ kind |-> "Sandbox",
         id |-> row.id,
         name |-> row.name,
         template |-> row.template,
         state |-> Val(from_str(row.state)),
         container_id |-> row.container_id,
         env |-> from_json(row.env),
         metadata |-> from_json(row.metadata),
         created_at |-> row.created_at,
         updated_at |-> row.updated_at,
         timeout |-> as_u64(row.timeout),
         error_message |-> row.error_message ]

\* SandboxRepository::create: INSERT, then self.get(&id)
RepoCreate(p) ==
  /\ trip.pc = "idle"
  /\ LET row == InsertedRow(Uuid(0), p, now)
     IN trip' = [trip EXCEPT !.pc = "created", !.params = p, !.row = row,
                             !.created = try_from(row)]
  /\ UNCHANGED <<rows, containers, connections, pending_requests, conns, calls, dels, creates,
                 sweep, workspaces, wsdel, now, agentVars, instant, waiter>>

\* SandboxRepository::get of the id create returned
RepoGet ==
  /\ trip.pc = "created"
  /\ trip' = [trip EXCEPT !.pc = "fetched", !.fetched = try_from(trip.row)]
  /\ UNCHANGED <<rows, containers, connections, pending_requests, conns, calls, dels, creates,
                 sweep, workspaces, wsdel, now, agentVars, instant, waiter>>

(***************************************************************************)
(* Specifications.                                                         *)
(***************************************************************************)
CallSteps ==
  \/ \E c \in Calls : CallArm(c)
  \/ \E c \in Calls : CallSend(c)
  \/ \E c \in Calls : RunReceive(c)
  \/ \E c \in Calls : RunTimeout(c)

StreamSteps ==
  \/ \E k \in Conns : FwdRecv(k)
  \/ \E k \in Conns : FwdSend(k)
  \/ \E k \in Conns : FwdEnd(k)
  \/ \E k \in Conns : ServerRecv(k)
  \/ \E k \in Conns : ServerEOF(k)
  \/ \E k \in Conns : AgentRecv(k)
  \/ \E k \in Conns, cid \in Cids, p \in Payloads : AgentReply(k, cid, p)
  \/ \E k \in Conns : AgentClose(k)

DeleteSteps ==
  \/ \E d \in Deletes : DeleteUpdateState(d)
  \/ \E d \in Deletes, removed \in BOOLEAN : DeleteContainer(d, removed)
  \/ \E d \in Deletes : DeleteUnregister(d)
  \/ \E d \in Deletes : DeleteRow(d)

CreateSteps ==
  \/ \E t \in Creates, w \in WorkspaceIds : CreateStart(t, w)
  \/ \E t \in Creates, s \in SandboxIds, tmo \in Timeouts : CreateInsert(t, s, tmo)
  \/ \E t \in Creates, outcome \in {"no_workspace_dir", "create_failed", "created"} :
        CreateContainer(t, outcome)
  \/ \E t \in Creates : CreateUpdateContainerId(t)
  \/ \E t \in Creates, started \in BOOLEAN : CreateStartContainer(t, started)
  \/ \E t \in Creates, removed \in BOOLEAN : CreateCleanup(t, removed)
  \/ \E t \in Creates : CreateMarkError(t)
  \/ \E t \in Creates, timedOut \in BOOLEAN : CreateWaitAgent(t, timedOut)
  \/ \E t \in Creates : CreateMarkRunning(t)
  \/ \E t \in Creates : CreateFetch(t)

SweepSteps ==
  \/ SweepSelect
  \/ \E d \in Deletes, s \in SandboxIds : SweepDelete(d, s)
  \/ SweepJoin
  \/ SweepEnd

\* a sandbox that create has brought to Running, its agent not yet connected
InitPlane ==
  /\ InitCommon
  /\ rows = [s \in SandboxIds |-> with_workspace(Row("running", s, None, 0, 0), "W1")]
  /\ containers = SandboxIds

\* the connection plane of one running sandbox: PlaneCalls facade calls, one
\* agent stream, one delete
NextPlane ==
  \/ \E c \in 1..PlaneCalls, op \in Ops, s \in SandboxIds : CallStart(c, op, s)
  \/ CallSteps
  \/ \E k \in 1..PlaneConns, s \in SandboxIds : Handshake(k, s)
  \/ StreamSteps
  \/ \E d \in 1..PlaneDeletes, s \in SandboxIds, force \in BOOLEAN : DeleteStart(d, s, force)
  \/ DeleteSteps

Spec == InitPlane /\ [][NextPlane]_vars

\* an agent that reconnects: MaxConns streams for the same sandbox
NextReconnect ==
  \/ \E c \in 1..PlaneCalls, op \in Ops, s \in SandboxIds : CallStart(c, op, s)
  \/ CallSteps
  \/ \E k \in Conns, s \in SandboxIds : Handshake(k, s)
  \/ StreamSteps

ReconnectSpec == InitPlane /\ [][NextReconnect]_vars

\* MaxCalls facade calls against one agent stream
NextBackpressure ==
  \/ \E c \in Calls, op \in Ops, s \in SandboxIds : CallStart(c, op, s)
  \/ CallSteps
  \/ \E k \in 1..PlaneConns, s \in SandboxIds : Handshake(k, s)
  \/ StreamSteps

\* the server's own tasks are scheduled fairly (tokio runs every ready task and
\* fires every timer); the agent and the callers are not obliged to act
ServerFairness ==
  /\ \A c \in Calls : WF_vars(CallArm(c))
  /\ \A c \in Calls : WF_vars(CallSend(c))
  /\ \A c \in Calls : WF_vars(RunReceive(c))
  /\ \A c \in Calls : WF_vars(RunTimeout(c))
  /\ \A k \in Conns : WF_vars(FwdRecv(k))
  /\ \A k \in Conns : WF_vars(FwdSend(k))
  /\ \A k \in Conns : WF_vars(FwdEnd(k))
  /\ \A k \in Conns : WF_vars(ServerRecv(k))
  /\ \A k \in Conns : WF_vars(ServerEOF(k))

FairSpec == InitPlane /\ [][NextBackpressure]_vars /\ ServerFairness

\* heartbeat timestamps the agent sends
Timestamps == {7, 8}

\* the connection plane with an agent that also sends heartbeats
NextHeartbeat ==
  \/ NextPlane
  \/ \E k \in 1..PlaneConns, ts \in Timestamps : AgentHeartbeat(k, ts)
  \/ \E k \in 1..PlaneConns : ServerHeartbeat(k)

HeartbeatSpec == InitPlane /\ [][NextHeartbeat]_vars

\* the store after SandboxRepository::init: no rows, no containers
InitLifecycle ==
  /\ InitCommon
  /\ rows = [s \in SandboxIds |-> NoRow]
  /\ containers = {}

\* the lifecycle of one sandbox: create, deletes, the expiry sweep, its agent
NextLifecycle ==
  \/ CreateSteps
  \/ \E d \in Deletes, s \in SandboxIds, force \in BOOLEAN : DeleteStart(d, s, force)
  \/ DeleteSteps
  \/ SweepSteps
  \/ Tick
  \/ \E k \in 1..PlaneConns, s \in SandboxIds : Handshake(k, s)

LifecycleSpec == InitLifecycle /\ [][NextLifecycle]_vars

\* a sandbox from create onwards, run calls against it, and its agent, which
\* may attach before or after create gives up waiting for it
NextAttach ==
  \/ CreateSteps
  \/ \E c \in 1..PlaneCalls, s \in SandboxIds : CallStart(c, "RunCommand", s)
  \/ CallSteps
  \/ \E k \in 1..PlaneConns, s \in SandboxIds : Handshake(k, s)
  \/ StreamSteps

AttachSpec == InitLifecycle /\ [][NextAttach]_vars

\* workspaces and the sandboxes that mount them: create, one sandbox delete and
\* workspace deletes, in any interleaving
NextWorkspace ==
  \/ CreateSteps
  \/ \E d \in 1..PlaneDeletes, s \in SandboxIds, force \in BOOLEAN : DeleteStart(d, s, force)
  \/ DeleteSteps
  \/ \E x \in WsDeletes, w \in WorkspaceIds : WsDeleteStart(x, w)
  \/ \E x \in WsDeletes : WsDeleteRow(x)

WorkspaceSpec == InitLifecycle /\ [][NextWorkspace]_vars

\* PTY operations end to end: the facade, the pool, one stream and the
\* agent's PtyManager behind it
NextPty ==
  \/ \E c \in Calls, op \in PtyOps, s \in SandboxIds, p \in PtyIds : PtyStart(c, op, s, p)
  \/ \E c \in Calls : CallArm(c)
  \/ \E c \in Calls : CallSend(c)
  \/ \E k \in 1..PlaneConns, s \in SandboxIds : Handshake(k, s)
  \/ \E k \in 1..PlaneConns : FwdRecv(k)
  \/ \E k \in 1..PlaneConns : FwdSend(k)
  \/ \E k \in 1..PlaneConns : ServerRecv(k)
  \/ \E k \in 1..PlaneConns : AgentRecvOther(k)
  \/ \E k \in 1..PlaneConns, spawned \in BOOLEAN : AgentServePty(k, spawned)

PtySpec == InitPlane /\ [][NextPty]_vars

\* one create and one get on the bare repository, for every CreateSandboxParams
NextRepo ==
  \/ \E p \in ParamsSet : RepoCreate(p)
  \/ RepoGet
  \/ Tick

RepoSpec == InitLifecycle /\ [][NextRepo]_vars

\* the connection plane with the handshake taken step by step and with first
\* messages that are missing or are no Handshake
NextHandshake ==
  \/ \E c \in 1..PlaneCalls, op \in Ops, s \in SandboxIds : CallStart(c, op, s)
  \/ CallSteps
  \/ \E k \in 1..PlaneConns, s \in SandboxIds : HandshakeRegister(k, s)
  \/ \E k \in 1..PlaneConns : HandshakeReply(k)
  \/ \E k \in 1..PlaneConns : HandshakeRefuse(k)
  \/ \E k \in 1..PlaneConns : HandshakeAbsent(k)
  \/ StreamSteps
  \/ \E k \in 1..PlaneConns, ts \in Timestamps : AgentHeartbeat(k, ts)
  \/ \E k \in 1..PlaneConns : ServerHeartbeat(k)

HandshakeSpec == InitPlane /\ [][NextHandshake]_vars

\* the agent on its own: the server and the network are its environment
NextAgent ==
  \/ AgentConnectOk
  \/ AgentConnectFail
  \/ AgentStreamError
  \/ AgentStreamEOF
  \/ AgentSleep
  \/ AgentShutdown
  \/ \E cid \in AgentCids, id \in PtyIds, spawned \in BOOLEAN : AgentCreatePty(cid, id, spawned)
  \/ \E cid \in AgentCids, id \in PtyIds : AgentResizePty(cid, id)
  \/ \E cid \in AgentCids, id \in PtyIds : AgentKillPty(cid, id)
  \/ \E id \in PtyIds : AgentPtyInput(id)
  \/ AgentSendResponse
  \/ AgentWire

\* the agent's own steps are taken when they can be: the sleep ends, a
\* response is sent when the channel has room, the stream drains the channel
AgentFairness ==
  /\ WF_vars(AgentSleep)
  /\ WF_vars(AgentSendResponse)
  /\ WF_vars(AgentWire)

AgentSpec == InitPlane /\ [][NextAgent]_vars /\ AgentFairness

\* exit codes of the children that are spawned
ExitCodes == {3}
\* connections the agent of ResponseSpec loses before it stays on one
ResponseConns == 2
\* the PTY ids its requests name
ResponsePtys == {1}
AgentTasks == [cid : RunCids, conn : 0..ResponseConns, spawned : BOOLEAN, code : ExitCodes]

\* the agent with every kind of request the server sends it
NextResponse ==
  \/ AgentConnectOk
  \/ agent.failures < ResponseConns /\ AgentStreamError
  \/ AgentStreamEOF
  \/ AgentSleep
  \/ AgentShutdown
  \/ \E cid \in RunCids, spawned \in BOOLEAN, code \in ExitCodes :
       AgentRunCommand(cid, spawned, code)
  \/ \E t \in AgentTasks : AgentRunDone(t)
  \/ \E cid \in RunCids, killed \in BOOLEAN : AgentKillProcess(cid, killed)
  \/ \E cid \in RunCids, id \in ResponsePtys, spawned \in BOOLEAN : AgentCreatePty(cid, id, spawned)
  \/ \E cid \in RunCids, id \in ResponsePtys : AgentResizePty(cid, id)
  \/ \E cid \in RunCids, id \in ResponsePtys : AgentKillPty(cid, id)
  \/ \E id \in ResponsePtys : AgentPtyInput(id)
  \/ AgentSendResponse
  \/ AgentWire

\* as AgentFairness, and a spawned task runs to its end: the channel serves
\* its waiting senders in order, so a task that finds it full again and again
\* is not passed over for ever
ResponseFairness ==
  /\ AgentFairness
  /\ \A cid \in RunCids : SF_vars(\E t \in AgentTasks : t.cid = cid /\ AgentRunDone(t))

ResponseSpec == InitPlane /\ [][NextResponse]_vars /\ ResponseFairness

\* the agent from the handshake of each connection onwards
NextAgentHandshake ==
  \/ \E s \in SandboxIds : AgentSendHandshake(s)
  \/ \E r \in FirstReplies : AgentFirstReply(r)
  \/ AgentStreamError
  \/ AgentStreamEOF
  \/ AgentSleep
  \/ AgentShutdown
  \/ \E ts \in Timestamps : AgentBeat(ts)
  \/ \E cid \in RunCids, killed \in BOOLEAN : AgentKillProcess(cid, killed)
  \/ \E cid \in RunCids, id \in ResponsePtys, spawned \in BOOLEAN : AgentCreatePty(cid, id, spawned)
  \/ \E id \in ResponsePtys : AgentPtyInput(id)
  \/ AgentSendResponse
  \/ AgentWire

AgentHandshakeSpec == InitPlane /\ [][NextAgentHandshake]_vars

\* run calls made in CrossSpec
CrossCalls == 1

\* run calls against S1 while the agents of S1 and of another sandbox are
\* connected, each free to put any correlation id into its responses
NextCross ==
  \/ \E c \in 1..CrossCalls, s \in SandboxIds : CallStart(c, "RunCommand", s)
  \/ \E c \in Calls : CallArm(c)
  \/ \E c \in Calls : RunReceive(c)
  \/ \E c \in Calls : RunTimeout(c)
  \/ \E k \in Conns, s \in AgentIds : Handshake(k, s)
  \/ StreamSteps
  \/ \E k \in Conns, cid \in Cids, p \in Payloads : AgentForge(k, cid, p)

CrossSpec == InitPlane /\ [][NextCross]_vars

\* one create and deletes of the sandbox it makes, in any interleaving, with
\* a Docker daemon that never fails
NextRace ==
  \/ \E t \in Creates, w \in WorkspaceIds : CreateStart(t, w)
  \/ \E t \in Creates, s \in SandboxIds, tmo \in Timeouts : CreateInsert(t, s, tmo)
  \/ \E t \in Creates : CreateContainer(t, "created")
  \/ \E t \in Creates : CreateUpdateContainerId(t)
  \/ \E t \in Creates : CreateStartContainer(t, TRUE)
  \/ \E t \in Creates, timedOut \in BOOLEAN : CreateWaitAgent(t, timedOut)
  \/ \E t \in Creates : CreateMarkRunning(t)
  \/ \E t \in Creates : CreateFetch(t)
  \/ \E d \in Deletes, s \in SandboxIds, force \in BOOLEAN : DeleteStart(d, s, force)
  \/ \E d \in Deletes : DeleteUpdateState(d)
  \/ \E d \in Deletes : DeleteContainer(d, TRUE)
  \/ \E d \in Deletes : DeleteUnregister(d)
  \/ \E d \in Deletes : DeleteRow(d)
  \/ \E k \in 1..PlaneConns, s \in SandboxIds : Handshake(k, s)

RaceSpec == InitLifecycle /\ [][NextRace]_vars

\* deletes of a sandbox that exists and runs, forced or not, in any
\* interleaving; removing a container that is gone already fails
NextDeleteRace ==
  \/ \E d \in Deletes, s \in SandboxIds, force \in BOOLEAN : DeleteStart(d, s, force)
  \/ \E d \in Deletes : DeleteUpdateState(d)
  \/ \E d \in Deletes : DeleteContainer(d, dels[d].container_id \in containers)
  \/ \E d \in Deletes : DeleteUnregister(d)
  \/ \E d \in Deletes : DeleteRow(d)
  \/ \E k \in 1..PlaneConns, s \in SandboxIds : Handshake(k, s)
  \/ \E k \in 1..PlaneConns : AgentClose(k)
  \/ \E k \in 1..PlaneConns : ServerEOF(k)

DeleteRaceSpec == InitPlane /\ [][NextDeleteRace]_vars

(***************************************************************************)
(* Properties of the control plane.                                        *)
(***************************************************************************)
\* a run call that is armed: its slot is in pending_requests, no response yet
Pending(c) ==
  /\ calls[c].op = "RunCommand"
  /\ calls[c].pc \in {"send", "wait"}
  /\ calls[c].slot = Nil

\* C1: when the agent stream of a sandbox ends while run calls are pending on
\* it, each of those calls resolves with AgentCommunicationError.
C1_DisconnectCancelsPending ==
  [][\A c \in Calls :
       ( /\ calls[c].pc = "wait"
         /\ calls[c].slot = Nil
         /\ calls[c].via # Nil
         /\ conns[Val(calls[c].via)].phase = "closed"
         /\ calls'[c].pc = "done" )
       => calls'[c].result = Err("AgentCommunicationError")]_vars

\* C2: every armed run call eventually returns, whatever the agent does.
C2_ArmedRunReturns ==
  \A c \in Calls : Pending(c) ~> (calls[c].pc = "done")

\* C3: a send through the registry never waits for room in the outbound
\* queue: when the queue is full it returns AgentCommunicationError at once.
C3_FullQueueFailsAtOnce ==
  \A c \in Calls : calls[c].pc # "send"

\* the state changes the lifecycle allows
AllowedTransitions ==
  { <<"starting", "running">>, <<"starting", "error">>,
    <<"running", "stopping">>, <<"running", "error">>,
    <<"stopping", "stopped">>, <<"stopping", "error">> }

\* C4: every change of a persisted sandbox's state is one of the allowed
\* transitions.
C4_OnlyAllowedTransitions ==
  [][\A s \in SandboxIds :
       ( /\ RowExists(rows, s)
         /\ RowExists(rows', s)
         /\ rows'[s].state # rows[s].state )
       => <<rows[s].state, rows'[s].state>> \in AllowedTransitions]_vars

\* C5: when a forced delete of a sandbox returns, no run call that was sent
\* over that sandbox's unregistered connection is still pending.
C5_ForceDeleteResolvesPending ==
  [][\A d \in Deletes :
       ( /\ dels[d].force
         /\ dels[d].pc # "done"
         /\ dels'[d].pc = "done"
         /\ dels'[d].result = Ok )
       => \A c \in Calls :
            ~( /\ calls'[c].sid = dels[d].sid
               /\ calls'[c].pc = "wait"
               /\ calls'[c].slot = Nil
               /\ calls'[c].via # connections'[dels[d].sid] )]_vars

\* C6: every correlation id in pending_requests belongs to a call on a
\* sandbox id that is registered.
C6_PendingImpliesRegistered ==
  \A u \in Cids :
    pending_requests[u] # Nil => is_connected(calls[Val(pending_requests[u])].sid)

C8_UnknownResponseDropped ==
  /\ [][\A k \in Conns :
          ( /\ conns[k].phase = "open"
            /\ conns[k].inbound # << >>
            /\ pending_requests[Head(conns[k].inbound).cid] = Nil
            /\ conns'[k].inbound = Tail(conns[k].inbound) )
          => UNCHANGED <<pending_requests, connections, calls>>]_vars
  /\ [][\A c \in Calls :
          /\ calls[c].slot # Nil => calls'[c].slot = calls[c].slot
          /\ calls[c].pc = "done" => calls'[c] = calls[c]]_vars

\* C8 happens: the response to a run call that has already timed out is the
\* next message of an open stream
C8_Witness ==
  \E k \in Conns, c \in Calls :
    /\ conns[k].phase = "open"
    /\ conns[k].inbound # << >>
    /\ Head(conns[k].inbound).cid = Uuid(c)
    /\ pending_requests[Uuid(c)] = Nil
    /\ calls[c].result = Err("ProcessTimeout")

\* C9: a run call is resolved only by the response that carries its own
\* correlation id, in whatever order responses arrive: Success returns a
\* CommandResult with that response's exit_code, stdout and stderr, anything
\* else returns ProcessExecutionFailed.
C9_OwnResponseOnly ==
  /\ [](\A c \in Calls :
          calls[c].slot # Nil => Val(calls[c].slot).correlation_id = Uuid(c))
  /\ [][\A c \in Calls :
          (calls[c].slot = Nil /\ calls'[c].slot # Nil)
          => \E k \in Conns :
               /\ conns[k].inbound # << >>
               /\ conns'[k].inbound = Tail(conns[k].inbound)
               /\ LET m == Head(conns[k].inbound)
                      r == Val(calls'[c].slot)
                  IN /\ m.cid = Uuid(c)
                     /\ r.success = (m.payload.kind = "Success")
                     /\ r.success => /\ r.exit_code = Some(m.payload.exit_code)
                                     /\ r.stdout = Some(m.payload.stdout)
                                     /\ r.stderr = Some(m.payload.stderr)]_vars
  /\ [][\A c \in Calls :
          (calls[c].pc = "wait" /\ calls[c].slot # Nil /\ calls'[c].pc = "done")
          => LET r == Val(calls[c].slot)
             IN IF r.success
                  THEN calls'[c].result =
                         [kind |-> "CommandResult", exit_code |-> Val(r.exit_code),
                          stdout |-> Val(r.stdout), stderr |-> Val(r.stderr)]
                  ELSE calls'[c].result.kind = "ProcessExecutionFailed"]_vars

\* C9 happens: two run calls were pending together; one has returned the
\* outcome of its own response while the other's response, of the other kind,
\* is the next message of the stream
C9_Witness ==
  \E a, b \in Calls :
    /\ a < b
    /\ calls[a].op = "RunCommand" /\ calls[b].op = "RunCommand"
    /\ calls[a].pc = "wait" /\ calls[a].slot = Nil
    /\ pending_requests[Uuid(a)] = Some(a)
    /\ calls[b].pc = "done" /\ calls[b].result.kind = "ProcessExecutionFailed"
    /\ \E k \in Conns :
         /\ conns[k].inbound # << >>
         /\ Head(conns[k].inbound).cid = Uuid(a)
         /\ Head(conns[k].inbound).payload.kind = "Success"

C11_ConnectedUntilUnregister ==
  [][/\ \A k \in Conns :
          (conns[k].phase = "new" /\ conns'[k].phase = "open")
          => connections'[conns'[k].sid] # Nil
     /\ \A s \in SandboxIds :
          (is_connected(s) /\ connections'[s] = Nil)
          => \/ \E k \in Conns : /\ conns[k].phase = "open"
                                  /\ conns[k].sid = s
                                  /\ conns'[k].phase = "closed"
             \/ \E d \in Deletes : /\ dels[d].pc = "unregister"
                                    /\ dels[d].sid = s
                                    /\ dels'[d].pc = "db_delete"]_vars

\* C11 happens: the id is still registered after a heartbeat was acknowledged,
\* a run timed out and another run got its response
C11_Witness ==
  \E s \in SandboxIds, k \in Conns, a, b \in Calls :
    /\ connections[s] = Some(k)
    /\ conns[k].wire # << >>
    /\ Head(conns[k].wire).type = "HeartbeatAck"
    /\ calls[a].sid = s /\ calls[a].result = Err("ProcessTimeout")
    /\ calls[b].sid = s /\ calls[b].result.kind = "CommandResult"

\* C12: under every interleaving of create, delete and the expiry sweep, a
\* sandbox row in state Running has its container id set.
C12_RunningHasContainerId ==
  \A s \in SandboxIds :
    (RowExists(rows, s) /\ rows[s].state = "running") => rows[s].container_id # None

\* C12 happens: create has brought a row to Running
C12_Witness ==
  \E t \in Creates :
    /\ creates[t].pc = "done"
    /\ creates[t].result = Ok
    /\ RowExists(rows, creates[t].sid)
    /\ rows[creates[t].sid].state = "running"

\* C13: run, kill, create_pty, resize_pty and kill_pty return SandboxNotFound
\* when the id has no row, otherwise InvalidSandboxState when the row is not
\* Running, otherwise AgentNotConnected when the id is not registered; a
\* call refused by a guard enqueues nothing and creates no pending slot.
C13_GuardOrder ==
  [][\A c \in Calls :
       /\ (calls[c].pc = "idle" /\ calls'[c].pc # "idle" /\ calls'[c].op # "PtyInput")
          => LET s == calls'[c].sid
             IN /\ ~RowExists(rows, s)
                   => /\ calls'[c].pc = "done"
                      /\ calls'[c].result = Err("SandboxNotFound")
                      /\ UNCHANGED <<conns, pending_requests>>
                /\ (RowExists(rows, s) /\ rows[s].state # "running")
                   => /\ calls'[c].pc = "done"
                      /\ calls'[c].result = Err("InvalidSandboxState")
                      /\ UNCHANGED <<conns, pending_requests>>
                /\ (RowExists(rows, s) /\ rows[s].state = "running")
                   => calls'[c].pc = "checked"
       /\ (calls[c].pc = "checked" /\ calls'[c].pc # "checked")
          => IF is_connected(calls[c].sid)
               THEN calls'[c].result # Err("AgentNotConnected")
               ELSE /\ calls'[c].pc = "done"
                    /\ calls'[c].result = Err("AgentNotConnected")
                    /\ UNCHANGED <<conns, pending_requests>>]_vars

\* C13 happens: a guarded call was refused by the state guard and another by
\* the registry guard
C13_Witness ==
  \E a, b \in Calls :
    /\ calls[a].op \in Ops \ {"PtyInput"}
    /\ calls[b].op \in Ops \ {"PtyInput"}
    /\ calls[a].result = Err("InvalidSandboxState")
    /\ calls[b].result = Err("AgentNotConnected")

\* C14: once a delete of a sandbox id has returned success, get of that id
\* returns SandboxNotFound in every later state, and every delete of that id
\* that begins later, forced or not, returns SandboxNotFound.
C14_DeletedStaysDeleted ==
  /\ [](\A d \in Deletes :
          (dels[d].pc = "done" /\ dels[d].result = Ok)
          => repo_get(rows, dels[d].sid) = Err("SandboxNotFound"))
  /\ [][\A d, e \in Deletes :
          ( /\ dels[d].pc = "done" /\ dels[d].result = Ok
            /\ dels[e].pc = "idle" /\ dels'[e].pc # "idle"
            /\ dels'[e].sid = dels[d].sid )
          => /\ dels'[e].pc = "done"
             /\ dels'[e].result = Err("SandboxNotFound")]_vars

\* C14 happens: a delete has succeeded and a delete of the same id that began
\* after it has returned
C14_Witness ==
  \E d, e \in Deletes :
    /\ d < e
    /\ dels[d].pc = "done" /\ dels[d].result = Ok
    /\ dels[e].pc = "done" /\ dels[e].sid = dels[d].sid
    /\ dels[e].result = Err("SandboxNotFound")
    /\ dels[e].container_id = None

\* C15: delete(id, force=false) of a sandbox whose row is Running returns
\* InvalidSandboxState and changes nothing: the row, the containers and the
\* registry stay as they are, and the call takes no further step.
C15_UnforcedDeleteOfRunningRefused ==
  [][\A d \in Deletes :
       /\ ( /\ dels[d].pc = "idle" /\ dels'[d].pc # "idle"
            /\ ~dels'[d].force
            /\ RowExists(rows, dels'[d].sid)
            /\ rows[dels'[d].sid].state = "running" )
          => /\ dels'[d].pc = "done"
             /\ dels'[d].result = Err("InvalidSandboxState")
             /\ UNCHANGED <<rows, containers, connections>>
       /\ dels[d].pc = "done" => dels'[d] = dels[d]]_vars

\* C15 happens: an unforced delete was refused and the sandbox is still
\* Running, with its container and its registered agent
C15_Witness ==
  \E d \in Deletes :
    /\ dels[d].pc = "done"
    /\ ~dels[d].force
    /\ dels[d].result = Err("InvalidSandboxState")
    /\ rows[dels[d].sid].state = "running"
    /\ dels[d].sid \in containers
    /\ is_connected(dels[d].sid)

\* C16: when the agent has not registered by the end of agent_timeout, create
\* still moves the row Starting -> Running and returns the sandbox; a run
\* call on it returns AgentNotConnected while the id is not registered, and
\* once the agent has handshaken a run call's request is queued for it.
C16_RunningWithoutAgent ==
  /\ [](\A t \in Creates :
          (creates[t].pc = "done" /\ creates[t].waited = "timeout")
          => /\ creates[t].result = Ok
             /\ rows[creates[t].sid].state = "running")
  /\ [][\A t \in Creates :
          (creates[t].pc = "mark_running" /\ creates'[t].pc # "mark_running")
          => /\ rows[creates[t].sid].state = "starting"
             /\ rows'[creates[t].sid].state = "running"]_vars
  /\ [][\A c \in Calls :
          (calls[c].pc = "checked" /\ calls'[c].pc # "checked")
          => IF is_connected(calls[c].sid)
               THEN LET k == Val(connections[calls[c].sid])
                    IN SendOutcome(k) = "ok"
                       => /\ calls'[c].pc = "wait"
                          /\ conns'[k].msgq =
                               Append(conns[k].msgq, ServerMsg("RunCommand", Uuid(c)))
               ELSE calls'[c].result = Err("AgentNotConnected")]_vars

\* C16 happens: create gave up waiting and returned a Running sandbox, one
\* run call was refused with AgentNotConnected, and after the agent attached
\* another run call's request has reached it
C16_Witness ==
  \E t \in Creates, a, b \in Calls, k \in Conns :
    /\ creates[t].pc = "done" /\ creates[t].waited = "timeout"
    /\ creates[t].result = Ok
    /\ calls[a].result = Err("AgentNotConnected")
    /\ calls[b].via = Some(k)
    /\ Uuid(b) \in conns[k].got

\* C17: when create_container or start_container fails, create returns the
\* error and leaves the row in state Error with the failure message, never
\* Running; after a failed start the removal of the created container is
\* attempted first, and only then the row becomes Error.
C17_FailedCreateEndsInError ==
  /\ [](\A t \in Creates :
          (creates[t].pc = "done" /\ creates[t].result = Err("DockerError"))
          => /\ rows[creates[t].sid].state = "error"
             /\ rows[creates[t].sid].error_message = "DockerError")
  /\ [][\A t \in Creates :
          LET s == creates[t].sid
          IN /\ (creates[t].pc = "start" /\ creates'[t].pc \notin {"start", "wait_agent"})
                => /\ creates'[t].pc = "cleanup"
                   /\ rows'[s].state = "starting"
             /\ (creates[t].pc = "cleanup" /\ creates'[t].pc # "cleanup")
                => /\ creates'[t].pc = "mark_error"
                   /\ rows'[s].state = "starting"
                   /\ containers' \in {containers, containers \ {s}}
             /\ (creates[t].pc = "mark_error" /\ creates'[t].pc # "mark_error")
                => /\ creates'[t].pc = "done"
                   /\ creates'[t].result = Err("DockerError")
                   /\ rows'[s].state = "error"
             /\ (creates[t].pc = "container" /\ creates'[t].pc = "done")
                => /\ creates'[t].result \in {Err("DockerError"), Err("Internal")}
                   /\ rows'[s].state = "error"
                   /\ UNCHANGED containers]_vars

\* C17 happens: start failed, the container was removed, and create returned
\* the error with the row in state Error
C17_Witness ==
  \E t \in Creates :
    /\ creates[t].pc = "done"
    /\ creates[t].result = Err("DockerError")
    /\ rows[creates[t].sid].state = "error"
    /\ rows[creates[t].sid].container_id # None
    /\ creates[t].sid \notin containers

\* C18: when container creation fails, create has called create_container
\* twice (one retry) and has made one cleanup attempt by the time it marks the
\* sandbox Error.
C18_CreationRetriedOnce ==
  \A t \in Creates :
    ( /\ creates[t].pc = "done"
      /\ creates[t].result = Err("DockerError")
      /\ rows[creates[t].sid].container_id = None )
    => /\ creates[t].tries = 2
       /\ creates[t].cleanups = 1

\* C19: a workspace is never deleted while a sandbox row references it: under
\* every interleaving of workspace delete with sandbox create, the workspace
\* of every sandbox row exists.
C19_NoDanglingWorkspaceReference ==
  \A s \in SandboxIds : RowExists(rows, s) => rows[s].workspace_id \in workspaces

\* the rows that are Running, have a timeout and are past it at time t
Expired(tbl, t) ==
  { s \in SandboxIds : /\ RowExists(tbl, s)
                        /\ tbl[s].state = "running"
                        /\ tbl[s].timeout > 0
                        /\ tbl[s].created_at + tbl[s].timeout * TicksPerSecond < t }

C21_StreamEndReconnects ==
  /\ (agent.ended \in {"error", "eof"}) ~> (agent.pc = "connecting")
  /\ (agent.pc = "backoff") ~> (agent.pc = "connecting")

\* C22: the delay the agent sleeps before its n-th consecutive reconnect
\* attempt (n failed attempts since the last established connection) is
\* min(2^(n-1), 60) seconds.
C22_BackoffDelay ==
  [][(agent.pc = "backoff" /\ agent'.pc = "connecting")
       => agent'.slept = Min(2^(agent.streak - 1), 60)]_vars

\* C23: under any sequence of CreatePty and KillPty requests the agent's PTY
\* map never holds more than max_ptys instances; a CreatePty read while the
\* map is full is answered with an error and leaves the map unchanged.
C23_PtyMapBounded ==
  /\ [](Cardinality(ptys) <= max_ptys)
  /\ [][\A cid \in AgentCids, id \in PtyIds, spawned \in BOOLEAN :
          (AgentCreatePty(cid, id, spawned) /\ Cardinality(ptys) >= max_ptys)
            => /\ ptys' = ptys
               /\ Val(agent'.sending).kind = "Error"]_vars

\* C23 happens: the map is full and a CreatePty has just been refused
C23_Witness ==
  /\ Cardinality(ptys) = max_ptys
  /\ agent.sending # Nil
  /\ Val(agent.sending).message = "Maximum number of PTYs reached"

\* call c returns in this step, its request having been enqueued
Returns(c) == calls[c].pc # "done" /\ calls'[c].pc = "done" /\ calls'[c].via # Nil

\* the agent has carried out the KillPty of some earlier call for PTY p
Killed(p) ==
  /\ p \notin ptys
  /\ \E b \in Calls, k \in Conns :
       calls[b].op = "KillPty" /\ calls[b].pty = p /\ Uuid(b) \in conns[k].got

\* C24: create_pty, resize_pty and kill_pty return only after the agent has
\* answered the request, and with the agent's outcome: create_pty returning
\* while the agent is at PTY capacity returns PtyLimitExceeded, resize_pty of
\* a PTY that has been killed returns PtyNotFound.
C24_PtyCallsReturnAgentOutcome ==
  [][\A c \in Calls :
       (Returns(c) /\ calls'[c].op \in PtyOps)
         => /\ \E k \in Conns : Uuid(c) \in conns[k].got
            /\ (calls'[c].op = "CreatePty" /\ Cardinality(ptys) >= max_ptys)
                 => calls'[c].result = Err("PtyLimitExceeded")
            /\ (calls'[c].op = "ResizePty" /\ Killed(calls'[c].pty))
                 => calls'[c].result = Err("PtyNotFound")]_vars

\* a PtyOutput frame for PTY id is in the agent's outbound channel
PtyOutputSent(id) ==
  \E i \in 1..Len(out) : out[i].type = "PtyOutput" /\ out[i].pty = id

\* C25: once input has been written to a live PTY and its shell has produced
\* output, the agent eventually sends a PtyOutput frame for that pty_id
\* (unless the PTY is killed or the connection ends first).
C25_PtyOutputSent ==
  \A id \in PtyIds :
    (id \in agent.unread)
      ~> (PtyOutputSent(id) \/ id \notin ptys \/ agent.pc # "running")

\* the server takes a Heartbeat off connection k's inbound stream in this step
TakesHeartbeat(k) ==
  /\ conns[k].phase = "open"
  /\ conns[k].inbound # << >>
  /\ Head(conns[k].inbound).type = "Heartbeat"
  /\ conns'[k].inbound = Tail(conns[k].inbound)

\* the HeartbeatAcks among the frames q
Acks(q) == SelectSeq(q, LAMBDA m : m.type = "HeartbeatAck")

C27_CreateThenGet ==
  /\ trip.pc # "idle" =>
       /\ trip.row.state = "starting"
       /\ trip.created.kind = "Sandbox"
       /\ trip.created.state = "Starting"
       /\ trip.created.name = trip.params.name
       /\ trip.created.template = unwrap_or(trip.params.template, "default")
       /\ trip.created.env = unwrap_or(trip.params.env, EmptyMap)
       /\ trip.created.metadata = unwrap_or(trip.params.metadata, EmptyMap)
       /\ trip.created.timeout = unwrap_or(trip.params.timeout, 0)
  /\ trip.pc = "fetched" =>
       /\ trip.fetched.kind = "Sandbox"
       /\ trip.fetched.id = trip.created.id
       /\ trip.fetched.name = trip.created.name
       /\ trip.fetched.template = trip.created.template
       /\ trip.fetched.env = trip.created.env
       /\ trip.fetched.metadata = trip.created.metadata
       /\ trip.fetched.timeout = trip.created.timeout
       /\ trip.fetched.state = trip.created.state

\* C27 happens: a sandbox with a two-entry env and the largest timeout has
\* been created and fetched
C27_Witness ==
  /\ trip.pc = "fetched"
  /\ trip.params.timeout = Some(2^TimeoutBits - 1)
  /\ trip.params.env # Nil
  /\ DOMAIN Val(trip.params.env) = {"A", "B"}

\* the connect() task of connection k ends in this step without a handshake
Rejected(k) == conns[k].phase = "new" /\ conns'[k].phase = "closed"

\* C28: when the first inbound message of a connection is absent or is no
\* Handshake, the server writes HandshakeAck{success = false, error} and
\* ends the task; the connection is never registered and nothing it sends
\* later is read.
C28_BadFirstMessageRefused ==
  /\ [][\A k \in Conns :
          Rejected(k)
            => /\ Len(conns'[k].wire) = Len(conns[k].wire) + 1
               /\ conns'[k].wire[Len(conns'[k].wire)].type = "HandshakeAck"
               /\ ~conns'[k].wire[Len(conns'[k].wire)].success
               /\ conns'[k].wire[Len(conns'[k].wire)].error # Nil
               /\ connections' = connections]_vars
  /\ [](\A k \in Conns :
          (conns[k].phase = "closed" /\ conns[k].sid = None)
            => \A s \in SandboxIds : connections[s] # Some(k))
  /\ [][\A k \in Conns :
          (conns[k].phase = "closed" /\ conns[k].sid = None)
            => /\ conns'[k].phase = "closed"
               /\ Len(conns'[k].inbound) >= Len(conns[k].inbound)]_vars

\* C29: on an accepted connection the first frame the server writes is
\* HandshakeAck{success = true}: it is written to the still empty stream
\* when the connection goes from registered to open, and no frame is
\* written before that, whatever callers have put into the connection's
\* queue since it was registered.
C29_HandshakeAckFirst ==
  /\ [][\A k \in Conns :
          (Len(conns'[k].wire) > Len(conns[k].wire) /\ conns[k].phase # "open")
            => /\ conns[k].phase \in {"new", "registered"}
               /\ conns[k].wire = << >>
               /\ conns'[k].wire[1].type = "HandshakeAck"
               /\ Len(conns'[k].wire) = 1
               /\ conns[k].phase = "registered" => conns'[k].wire[1].success]_vars
  /\ [][\A k \in Conns :
          (conns[k].phase # "open" /\ conns'[k].phase = "open")
            => /\ conns[k].phase = "registered"
               /\ conns[k].wire = << >>
               /\ conns'[k].wire = <<HandshakeAck(TRUE, Nil)>>]_vars

\* C29 happens: a caller's message is already in the queue of a connection
\* that is registered and has not been sent its HandshakeAck yet
C29_Witness ==
  \E k \in Conns :
    /\ conns[k].phase = "registered"
    /\ conns[k].msgq # << >>
    /\ conns[k].wire = << >>

\* the registry messages of connection k that the agent has not read yet,
\* oldest first: those written to the stream, the one the forwarder holds,
\* those still in the queue
Pipeline(cs, k) ==
  SelectSeq(cs[k].wire, LAMBDA m : m.type \in Ops)
    \o (IF cs[k].hand = Nil THEN << >> ELSE <<convert_pool_message_to_proto(Val(cs[k].hand))>>)
    \o [i \in 1..Len(cs[k].msgq) |-> convert_pool_message_to_proto(cs[k].msgq[i])]

\* q is a run of consecutive elements of p
IsRun(q, p) == \E i \in 1..(Len(p) + 1), j \in 0..Len(p) : q = SubSeq(p, i, j)

WakeDue == waiter.pc = "sleep" /\ instant >= waiter.wake

\* the call is waiting, its timeout has not elapsed and the id is registered
InWindow ==
  /\ waiter.pc = "sleep"
  /\ instant - waiter.start < waiter.timeout
  /\ is_connected(waiter.sid)

\* wait_for_connection, one turn of its loop at the instant `at`: Err once
\* start.elapsed() >= timeout_duration, Ok when is_connected, else sleep
WaitPoll(w, at) ==
  IF ~(at - w.start < w.timeout)
    THEN [w EXCEPT !.pc = "done", !.result = Err("AgentConnectionTimeout")]
  ELSE IF is_connected(w.sid)
    THEN [w EXCEPT !.pc = "done", !.result = Ok]
  ELSE [w EXCEPT !.pc = "sleep", !.wake = at + check_interval]

\* wait_for_connection(sandbox_id, timeout_duration) up to its first sleep
WaitStart(s, tmo) ==
  /\ waiter.pc = "idle"
  /\ waiter' = WaitPoll([waiter EXCEPT !.sid = s, !.start = instant, !.timeout = tmo,
                                        !.seen = is_connected(s)], instant)
  /\ UNCHANGED <<storeVars, connections, pending_requests, conns, calls, lifeVars, agentVars, trip, instant>>

\* sleep(check_interval) is over: the next turn of the loop
WaitWake ==
  /\ WakeDue
  /\ waiter' = WaitPoll(waiter, instant)
  /\ UNCHANGED <<storeVars, connections, pending_requests, conns, calls, lifeVars, agentVars, trip, instant>>

\* the monotonic clock advances
Elapse ==
  /\ instant < MaxInstant
  /\ ~WakeDue
  /\ instant' = instant + 1
  /\ waiter' = [waiter EXCEPT !.seen = @ \/ InWindow]
  /\ UNCHANGED <<storeVars, connections, pending_requests, conns, calls, lifeVars, agentVars, trip>>

\* AgentConnPool::check_stale_connections(max_idle): the ids of the entries
\* with now.duration_since(last_heartbeat) > max_idle
check_stale_connections(max_idle) ==
  { s \in SandboxIds :
      /\ connections[s] # Nil
      /\ instant - conns[Val(connections[s])].last_heartbeat > max_idle }

\* one agent connection that sends heartbeats while time passes
NextStale ==
  \/ \E k \in 1..PlaneConns, s \in SandboxIds : Handshake(k, s)
  \/ \E k \in 1..PlaneConns, ts \in Timestamps : AgentHeartbeat(k, ts)
  \/ \E k \in 1..PlaneConns : ServerHeartbeat(k)
  \/ \E k \in 1..PlaneConns : AgentRecv(k)
  \/ \E k \in 1..PlaneConns : AgentClose(k)
  \/ \E k \in 1..PlaneConns : ServerEOF(k)
  \/ Elapse

StaleSpec == InitPlane /\ [][NextStale]_vars

\* one wait_for_connection call while the agent connects and disconnects
NextWait ==
  \/ \E s \in SandboxIds, tmo \in 0..MaxWait : WaitStart(s, tmo)
  \/ WaitWake
  \/ Elapse
  \/ \E k \in 1..PlaneConns, s \in SandboxIds : Handshake(k, s)
  \/ \E k \in 1..PlaneConns : AgentClose(k)
  \/ \E k \in 1..PlaneConns : ServerEOF(k)

WaitSpec == InitPlane /\ [][NextWait]_vars

\* C31: the stale-connection check with max_idle never reports a registered
\* connection whose most recent Heartbeat was read less than max_idle ago
\* (heard > 0: a Heartbeat has been read after the clock's first instant)
C31_FreshHeartbeatNotStale ==
  \A s \in SandboxIds, max_idle \in 1..MaxIdle :
    (/\ connections[s] # Nil
     /\ conns[Val(connections[s])].heard > 0
     /\ instant - conns[Val(connections[s])].heard < max_idle)
      => s \notin check_stale_connections(max_idle)

\* the message loop has read a request that is answered in-line and holds the
\* CommandResponse of that correlation id, nothing sent yet
Holds(cid) ==
  /\ agent'.sending # Nil
  /\ Val(agent'.sending).type = "CommandResponse"
  /\ Val(agent'.sending).cid = cid
  /\ out' = out
  /\ agent'.tasks = agent.tasks

\* one frame is put on the connection's channel: the response the loop holds,
\* or the response of a task that was spawned on this connection
EmitsOwed ==
  \/ /\ agent.sending # Nil
     /\ out' = Append(out, Val(agent.sending))
     /\ agent'.sending = Nil
     /\ agent'.tasks = agent.tasks
  \/ \E t \in agent.tasks :
       /\ t.conn = AgentConn
       /\ Len(out') = Len(out) + 1
       /\ SubSeq(out', 1, Len(out)) = out
       /\ out'[Len(out')].type = "CommandResponse"
       /\ out'[Len(out')].cid = t.cid
       /\ agent'.tasks = agent.tasks \ {t}
       /\ agent'.sending = agent.sending

\* C32: every RunCommand, KillProcess, CreatePty, ResizePty and KillPty the
\* agent reads is answered by exactly one CommandResponse of the request's
\* correlation id, sent on the connection the request came in on while that
\* connection is open and on no later one; a PtyInput is answered by nothing
C32_OneResponsePerRequest ==
  /\ [][\A cid \in RunCids, id \in ResponsePtys, b \in BOOLEAN :
          (\/ AgentKillProcess(cid, b)
           \/ AgentCreatePty(cid, id, b)
           \/ AgentResizePty(cid, id)
           \/ AgentKillPty(cid, id)) => Holds(cid)]_vars
  /\ [][\A cid \in RunCids, b \in BOOLEAN, code \in ExitCodes :
          AgentRunCommand(cid, b, code)
            => /\ \E t \in agent'.tasks : t.cid = cid /\ t.conn = AgentConn /\ t \notin agent.tasks
               /\ Cardinality(agent'.tasks) = Cardinality(agent.tasks) + 1
               /\ out' = out /\ agent'.sending = agent.sending]_vars
  /\ [][Len(out') > Len(out) => EmitsOwed]_vars
  /\ [][(agent.sending # Nil /\ agent'.sending = Nil)
          => (Len(out') > Len(out) \/ agent'.pc # "running")]_vars
  /\ [][\A t \in AgentTasks : (t \in agent.tasks /\ t \notin agent'.tasks)
          => (Len(out') > Len(out) \/ agent.pc # "running" \/ t.conn # AgentConn)]_vars
  /\ [][\A id \in ResponsePtys : AgentPtyInput(id)
          => (out' = out /\ agent'.sending = Nil /\ agent'.tasks = agent.tasks)]_vars
  /\ (agent.sending # Nil) ~> (agent.sending = Nil)
  /\ \A cid \in RunCids :
       (\E t \in agent.tasks : t.cid = cid) ~> ~(\E t \in agent.tasks : t.cid = cid)

\* a RunCommand task outlives its connection and ends on the next one, and a
\* response of the other correlation id is on that connection's channel
C32_Witness ==
  /\ agent.pc = "running"
  /\ AgentConn = 1
  /\ \E t \in agent.tasks : t.conn = 0 /\ t.cid = 201
  /\ out # << >>
  /\ out[1].cid = 202

\* C33: when the child of a RunCommand cannot be spawned, the response the
\* agent sends for it is an Error and never a Success
C33_SpawnFailureIsError ==
  [][\A t \in AgentTasks :
       (/\ t \in agent.tasks
        /\ ~t.spawned
        /\ t \notin agent'.tasks
        /\ Len(out') > Len(out))
         => out'[Len(out')].kind = "Error"]_vars

\* the agent acts on a server message: a PTY is made or removed, a response
\* is held for sending, a RunCommand task is spawned, input is written
Dispatches ==
  \/ ptys' # ptys
  \/ agent'.sending # Nil /\ agent'.sending # agent.sending
  \/ agent'.tasks # agent.tasks /\ agent'.tasks \ agent.tasks # {}
  \/ agent'.unread # agent.unread

\* C34: on each connection the first frame the agent sends is Handshake; it
\* sends no heartbeat and acts on no server message before it has received
\* HandshakeAck{success = true}; a refusal, any other first reply, the end of
\* the stream, an error and the deadline all take it to the backoff
C34_HandshakeBeforeAnything ==
  /\ [][(agent.pc = "connecting" /\ agent'.pc # "connecting")
          => (\/ agent'.pc = "exited"
              \/ /\ agent'.pc = "handshaking"
                 /\ Len(out') = 1
                 /\ out'[1].type = "Handshake")]_vars
  /\ [](agent.pc \in {"connecting", "handshaking"}
          => \A i \in 1..Len(out) : out[i].type = "Handshake")
  /\ [][(Len(out') > Len(out) /\ out'[Len(out')].type # "Handshake")
          => (agent.pc = "running" /\ agent.reply = "ack")]_vars
  /\ [][Dispatches => (agent.pc = "running" /\ agent.reply = "ack")]_vars
  /\ [][(agent.pc = "handshaking" /\ agent'.pc = "running") => agent'.reply = "ack"]_vars
  /\ [][(agent.pc = "handshaking" /\ agent'.pc \notin {"handshaking", "exited"}
          /\ agent'.reply # "ack")
          => (/\ agent'.pc = "backoff"
              /\ ~agent'.connected
              /\ out' = << >>)]_vars
  /\ [][(agent.pc # "running" /\ agent'.pc = "running") => agent.pc = "handshaking"]_vars

\* a connection whose handshake was refused, and the next one acknowledged
\* and sending a heartbeat
C34_Witness ==
  /\ agent.failures = 1
  /\ agent.pc = "running"
  /\ agent.reply = "ack"
  /\ out # << >>
  /\ out[1].type = "Heartbeat"

\* C35: when the stream of an older connection ends after a newer connection
\* has registered for the same sandbox id, the newer connection's registry
\* entry stays: is_connected is still true
C35_OldStreamKeepsNewEntry ==
  [][\A k \in Conns, j \in Conns :
       (/\ k # j
        /\ conns[k].phase = "open"
        /\ conns'[k].phase = "closed"
        /\ conns[j].sid = conns[k].sid
        /\ connections[conns[k].sid] = Some(j))
         => connections'[conns[k].sid] = Some(j)]_vars

\* C36: while a registry send waits for room in a sandbox's outbound queue,
\* unregister by a delete of that sandbox, unregister by its ended stream and
\* register by a new handshake for that id can each be completed
C36_WaitingSendHoldsNoLock ==
  \A c \in Calls :
    calls[c].pc = "send" =>
      /\ \A d \in Deletes :
           (dels[d].pc = "unregister" /\ dels[d].sid = calls[c].sid)
             => ENABLED DeleteUnregister(d)
      /\ \A k \in Conns :
           (/\ conns[k].phase = "open"
            /\ conns[k].sid = calls[c].sid
            /\ conns[k].inbound = << >>
            /\ conns[k].eof)
             => ENABLED ServerEOF(k)
      /\ \A k \in Conns :
           (conns[k].phase = "new" /\ \A j \in Conns : j < k => conns[j].phase # "new")
             => ENABLED Handshake(k, calls[c].sid)

\* the id was registered when wait_for_connection was called, or at an
\* instant after that at which the timeout had not elapsed
RegisteredInTime ==
  \/ waiter'.seen
  \/ /\ is_connected(waiter'.sid)
     /\ instant - waiter'.start < waiter'.timeout

\* C37: wait_for_connection returns Ok when the sandbox id is registered at
\* the call or becomes registered before the timeout elapses, and
\* AgentConnectionTimeout otherwise; it never changes the registry
C37_WaitReturnsOkIffRegistered ==
  /\ [][(waiter.pc # "done" /\ waiter'.pc = "done")
          => /\ waiter'.result \in {Ok, Err("AgentConnectionTimeout")}
             /\ waiter'.result = Ok <=> RegisteredInTime]_vars
  /\ [][(waiter'.pc # waiter.pc) => connections' = connections]_vars

\* C38: a CommandResponse resolves a pending run only when it is read from
\* the connection of the sandbox the run was issued against
C38_ResponseFromOwnSandbox ==
  [][\A k \in Conns, c \in Calls :
       (/\ conns[k].phase = "open"
        /\ conns[k].inbound # << >>
        /\ conns'[k].inbound = Tail(conns[k].inbound)
        /\ Head(conns[k].inbound).type = "CommandResponse"
        /\ calls[c].slot = Nil
        /\ calls'[c].slot # Nil)
         => conns[k].sid = calls[c].sid]_vars

\* C39: once a create and a forced delete of the sandbox it made have both
\* returned, no container of that sandbox is left without its row
C39_NoContainerWithoutRow ==
  \A t \in Creates, d \in Deletes :
    (/\ creates[t].pc = "done"
     /\ dels[d].pc = "done"
     /\ dels[d].force
     /\ dels[d].sid = creates[t].sid
     /\ dels[d].result = Ok
     /\ \A e \in Deletes : dels[e].pc \in {"idle", "done"})
      => (creates[t].sid \in containers => RowExists(rows, creates[t].sid))

\* the deletes have all returned and two of them were made
BothDeletesDone ==
  /\ \A d \in Deletes : dels[d].pc = "done"
  /\ Cardinality(Deletes) = 2

=============================================================================
